---- MODULE Spec2Model ----
(***************************************************************************)
(* Model of the document-structure core of credentiable_docs:              *)
(*   - the containment test DocumentStructurer._is_contained_within        *)
(*     (src/src/doc_structure.py) and its variant is_contained_within      *)
(*     (src/src/spatial_utils.py);                                         *)
(*   - the hierarchy builder DocumentStructurer._build_hierarchy.          *)
(*                                                                         *)
(* Geometry.  A detection is a record                                      *)
(*   [detection_id, class, x, y, width, height]                            *)
(* with integer x, y (centre) and width, height.  The code computes the    *)
(* edges as x -/+ width/2 in floating point; the model keeps every edge    *)
(* DOUBLED (2*x -/+ width) so that all values stay integers.  Every        *)
(* comparison of the code is scaled accordingly, and every ratio test      *)
(* a/b > n/d is cross-multiplied (b > 0 is established before).  For the   *)
(* integer inputs used here the floating-point results of the code and     *)
(* the exact results of the model coincide.                                *)
(*                                                                         *)
(* A Python bool is modelled by the strings "True"/"False" so that the     *)
(* third outcome of a call, a raised "ZeroDivisionError", can be recorded  *)
(* in the same variable.                                                   *)
(***************************************************************************)
EXTENDS Integers, Sequences, FiniteSets, TLC

VARIABLES
    predictions,   \* input list of detections handed to _build_hierarchy
    pc,            \* "input" while the list is assembled, "done" after the build
    sections,      \* value returned by _build_hierarchy (dict as ordered list)
    elem,          \* element argument of the containment test under study
    cont,          \* container argument of the containment test under study
    fn,            \* which containment function was applied ("none" before)
    contained,     \* its outcome: "True", "False" or "ZeroDivisionError"
    hierarchy,     \* the tree handed to transform_hierarchy_for_output
    transformed,   \* the tree it returned
    extracted_tables,  \* the caller's dict handed to process_tables
    extracted_tables_output,  \* the file the tables are saved to as extracted
    processed_tables,  \* the dict process_tables returned
    raised,            \* the exception process_tables or main() raised ("none" if none)
    base_predictions,   \* the document tree tables are extracted from
    merged_predictions, \* the tree merge_table_results_with_ocr returned
    doc_structure,      \* the caller's dict of sections handed to the update
    updated_structure,  \* the dict the update returned
    structured_document,        \* main(): the structured document or None
    final_structured_document,  \* main(): the assembled document or None
    cleaned_document,           \* main(): the cleaned document or None
    steps,                      \* main(): the steps completed so far
    workflow_predictions,       \* the predictions the detection workflow returned
    snippets,                   \* the files of the snippet directory
    predictions_json,           \* the file ./output/predictions.json
    main_predictions,           \* main(): predictions, tagged ([list |-> l]) or None
    ocr_enriched_predictions    \* main(): the list the OCR step returned

outputVars == <<hierarchy, transformed>>

parserVars ==
    <<extracted_tables, extracted_tables_output, processed_tables, raised>>

mergeVars == <<base_predictions, merged_predictions>>

updateVars == <<doc_structure, updated_structure>>

pipelineVars ==
    <<structured_document, final_structured_document, cleaned_document, steps,
      workflow_predictions, snippets, predictions_json, main_predictions,
      ocr_enriched_predictions>>

vars == <<predictions, pc, sections, elem, cont, fn, contained,
          hierarchy, transformed, extracted_tables, extracted_tables_output,
          processed_tables, raised,
          base_predictions, merged_predictions, doc_structure,
          updated_structure, structured_document, final_structured_document,
          cleaned_document, steps, workflow_predictions, snippets,
          predictions_json, main_predictions, ocr_enriched_predictions>>

----------------------------------------------------------------------------
(* Helpers *)

Min(a, b) == IF a <= b THEN a ELSE b

Max(a, b) == IF a >= b THEN a ELSE b

Abs(a) == IF a >= 0 THEN a ELSE -a

Bool(b) == IF b THEN "True" ELSE "False"

Classes == {"section", "table", "field", "checkbox_context",
            "checkbox_option", "checkbox", "title"}

----------------------------------------------------------------------------
(* Box edges, doubled: e_left = e_x - e_w/2 becomes 2*e_x - e_w. *)

Left2(d) == 2 * d.x - d.width

Right2(d) == 2 * d.x + d.width

Top2(d) == 2 * d.y - d.height

Bottom2(d) == 2 * d.y + d.height

\* overlap_width = min(e_right, c_right) - max(e_left, c_left), doubled
OverlapWidth2(e, c) == Min(Right2(e), Right2(c)) - Max(Left2(e), Left2(c))

\* overlap_height = min(e_bottom, c_bottom) - max(e_top, c_top), doubled
OverlapHeight2(e, c) == Min(Bottom2(e), Bottom2(c)) - Max(Top2(e), Top2(c))

\* element_area = e_w * e_h
ElementArea(d) == d.width * d.height

\* (overlap_area / element_area) > num/den, with element_area > 0:
\* overlap_area = (ow2/2) * (oh2/2)
OverlapRatioAbove(e, c, num, den) ==
    OverlapWidth2(e, c) * OverlapHeight2(e, c) * den > 4 * num * ElementArea(e)

\* Variant of IsVerticallyClose that also accepts a container whose vertical
\* span lies inside the element's (a symmetric "one inside the other" test).
IsVerticallyClose_Symmetric(e, c, p) ==
    \/ Abs(Top2(e) - Bottom2(c)) < 2 * p
    \/ Abs(Bottom2(e) - Top2(c)) < 2 * p
    \/ (Top2(e) >= Top2(c) /\ Bottom2(e) <= Bottom2(c))
    \/ (Top2(c) >= Top2(e) /\ Bottom2(c) <= Bottom2(e))

\* The inline is_vertically_close of the checkbox / context rules:
\*   abs(e_top - c_bottom) < p  or  abs(e_bottom - c_top) < p
\*   or (e_top >= c_top and e_bottom <= c_bottom)
IsVerticallyClose(e, c, p) ==
    \/ Abs(Top2(e) - Bottom2(c)) < 2 * p
    \/ Abs(Bottom2(e) - Top2(c)) < 2 * p
    \/ (Top2(e) >= Top2(c) /\ Bottom2(e) <= Bottom2(c))

\* The inline is_vertically_close of the table rule (vertical_proximity = 100):
\*   (e_top >= c_top - p and e_bottom <= c_bottom + p)
\*   or (e_top <= c_bottom + p and e_bottom >= c_top - p)
TableIsVerticallyClose(e, c, p) ==
    \/ (Top2(e) >= Top2(c) - 2 * p /\ Bottom2(e) <= Bottom2(c) + 2 * p)
    \/ (Top2(e) <= Bottom2(c) + 2 * p /\ Bottom2(e) >= Top2(c) - 2 * p)

----------------------------------------------------------------------------
(* The rule bodies shared by both containment functions. *)

\* Variant of TableRule rejecting a vertical overlap ratio of exactly 0.3
\* (<= in place of <).
TableRule_VerticalStrict(e, c) ==
    IF OverlapWidth2(e, c) <= 0 \/ OverlapHeight2(e, c) <= 0 THEN "False"
    ELSE IF e.height = 0 THEN "ZeroDivisionError"
    ELSE IF OverlapHeight2(e, c) * 10 <= 3 * 2 * e.height THEN "False"
    ELSE IF Min(e.width, c.width) = 0 THEN "ZeroDivisionError"
    ELSE IF OverlapWidth2(e, c) * 10 < 2 * 2 * Min(e.width, c.width) THEN "False"
    ELSE Bool(TableIsVerticallyClose(e, c, 100))

\* "Special case for tables": identical in both files.
TableRule(e, c) ==
    IF OverlapWidth2(e, c) <= 0 \/ OverlapHeight2(e, c) <= 0 THEN "False"
    ELSE IF e.height = 0 THEN "ZeroDivisionError"
    \* vertical_overlap_ratio = overlap_height / e_h < 0.3
    ELSE IF OverlapHeight2(e, c) * 10 < 3 * 2 * e.height THEN "False"
    ELSE IF Min(e.width, c.width) = 0 THEN "ZeroDivisionError"
    \* horizontal_overlap_ratio = overlap_width / min(e_w, c_w) < 0.2
    ELSE IF OverlapWidth2(e, c) * 10 < 2 * 2 * Min(e.width, c.width) THEN "False"
    ELSE Bool(TableIsVerticallyClose(e, c, 100))

\* Variant of OverlapRule dividing the overlap area by the container's area.
OverlapRule_OverContainerArea(e, c, num, den) ==
    IF OverlapWidth2(e, c) <= 0 \/ OverlapHeight2(e, c) <= 0 THEN "False"
    ELSE IF ElementArea(c) = 0 THEN "ZeroDivisionError"
    ELSE Bool(OverlapWidth2(e, c) * OverlapHeight2(e, c) * den
                  > 4 * num * ElementArea(c))

\* Overlap test against a ratio num/den (fields in tables, default rule).
OverlapRule(e, c, num, den) ==
    IF OverlapWidth2(e, c) <= 0 \/ OverlapHeight2(e, c) <= 0 THEN "False"
    ELSE IF ElementArea(e) = 0 THEN "ZeroDivisionError"
    ELSE Bool(OverlapRatioAbove(e, c, num, den))

\* Variant of ProximityRule whose early return only covers a negative
\* overlap (< 0 in place of <= 0).
ProximityRule_NoZeroGuard(e, c, num, den, p) ==
    IF OverlapWidth2(e, c) < 0 \/ OverlapHeight2(e, c) < 0 THEN "False"
    ELSE IF ~IsVerticallyClose(e, c, p) THEN "False"
    ELSE IF ElementArea(e) = 0 THEN "ZeroDivisionError"
    ELSE Bool(OverlapRatioAbove(e, c, num, den))

\* Overlap test combined with vertical proximity p:
\*   return is_vertically_close and (overlap_area / element_area) > num/den
\* (the division is only evaluated when is_vertically_close is true).
ProximityRule(e, c, num, den, p) ==
    IF OverlapWidth2(e, c) <= 0 \/ OverlapHeight2(e, c) <= 0 THEN "False"
    ELSE IF ~IsVerticallyClose(e, c, p) THEN "False"
    ELSE IF ElementArea(e) = 0 THEN "ZeroDivisionError"
    ELSE Bool(OverlapRatioAbove(e, c, num, den))

\* spatial_utils: centre point of the element within the container's bounds
CenterRule(e, c) ==
    Bool(/\ Left2(c) <= 2 * e.x /\ 2 * e.x <= Right2(c)
         /\ Top2(c) <= 2 * e.y /\ 2 * e.y <= Bottom2(c))

InTableClasses == {"field", "checkbox", "checkbox_option", "checkbox_context"}

----------------------------------------------------------------------------
(* Variant of DocumentStructurer._is_contained_within in which the rule    *)
(* written for checkbox options is tested before the shared checkbox rule. *)

DS_is_contained_within_OptionRuleFirst(e, c, tnum, tden) ==
    IF e.class = "table"
        THEN TableRule(e, c)
    ELSE IF e.class \in InTableClasses /\ c.class = "table"
        THEN OverlapRule(e, c, 5, 10)
    ELSE IF e.class = "checkbox_option" /\ c.class = "checkbox_context"
        THEN ProximityRule(e, c, 2, 10, 120)
    ELSE IF e.class \in {"checkbox", "checkbox_option"} /\ c.class = "checkbox_context"
        THEN ProximityRule(e, c, 1, 10, 100)
    ELSE IF e.class = "checkbox" /\ c.class = "checkbox_option"
        THEN ProximityRule(e, c, 5, 100, 80)
    ELSE IF e.class = "checkbox_context" /\ c.class = "section"
        THEN ProximityRule(e, c, 3, 10, 150)
    ELSE OverlapRule(e, c, tnum, tden)

(* DocumentStructurer._is_contained_within(element, container, threshold)  *)
(* threshold is the ratio tnum/tden (default 8/10).                        *)

DS_is_contained_within(e, c, tnum, tden) ==
    IF e.class = "table"
        THEN TableRule(e, c)
    ELSE IF e.class \in InTableClasses /\ c.class = "table"
        THEN OverlapRule(e, c, 5, 10)
    ELSE IF e.class \in {"checkbox", "checkbox_option"} /\ c.class = "checkbox_context"
        THEN ProximityRule(e, c, 1, 10, 100)
    ELSE IF e.class = "checkbox_option" /\ c.class = "checkbox_context"
        THEN ProximityRule(e, c, 2, 10, 120)
    ELSE IF e.class = "checkbox" /\ c.class = "checkbox_option"
        THEN ProximityRule(e, c, 5, 100, 80)
    ELSE IF e.class = "checkbox_context" /\ c.class = "section"
        THEN ProximityRule(e, c, 3, 10, 150)
    ELSE OverlapRule(e, c, tnum, tden)

(* spatial_utils.is_contained_within(element, container, threshold) *)

is_contained_within(e, c, tnum, tden) ==
    IF e.class = "table"
        THEN TableRule(e, c)
    ELSE IF e.class \in InTableClasses /\ c.class = "table"
        THEN CenterRule(e, c)
    ELSE IF e.class \in {"checkbox", "checkbox_option"} /\ c.class = "checkbox_context"
        THEN ProximityRule(e, c, 5, 100, 150)
    ELSE IF e.class = "checkbox_option" /\ c.class = "checkbox_context"
        THEN ProximityRule(e, c, 1, 10, 150)
    ELSE IF e.class = "checkbox" /\ c.class = "checkbox_option"
        THEN ProximityRule(e, c, 2, 100, 100)
    ELSE IF e.class = "checkbox_context" /\ c.class = "section"
        THEN ProximityRule(e, c, 1, 10, 300)
    ELSE OverlapRule(e, c, tnum, tden)

----------------------------------------------------------------------------
(* DocumentStructurer._build_hierarchy(predictions)                        *)
(*                                                                         *)
(* Python dicts (elements_map, tables, sections) keep insertion order and  *)
(* a later assignment to an existing key replaces the value in place; they *)
(* are modelled as sequences of entries with distinct detection_id.        *)
(* Every call of the containment test uses the default threshold 0.8.      *)

\* self._is_contained_within(a, b) used as a condition.  For detections of
\* non-negative width and height the test never raises (C9_NoDivisionByZero),
\* so the build has no abort path to model.
Within(a, b) == DS_is_contained_within(a, b, 8, 10) = "True"

\* Variant of InsertByY placing d BEFORE the records of equal y (an unstable
\* sort: records of equal y come out in reverse input order).
RECURSIVE InsertByY_BeforeEqual(_, _)
InsertByY_BeforeEqual(s, d) ==
    IF s = <<>> THEN <<d>>
    ELSE IF d.y <= Head(s).y THEN <<d>> \o s
    ELSE <<Head(s)>> \o InsertByY_BeforeEqual(Tail(s), d)

\* Stable insertion of d into a list already sorted by y (sorted() is stable)
RECURSIVE InsertByY(_, _)
InsertByY(s, d) ==
    IF s = <<>> THEN <<d>>
    ELSE IF d.y < Head(s).y THEN <<d>> \o s
    ELSE <<Head(s)>> \o InsertByY(Tail(s), d)

\* sorted_elements = sorted(predictions, key=lambda x: x['y'])
RECURSIVE SortedByY(_)
SortedByY(s) ==
    IF s = <<>> THEN <<>>
    ELSE InsertByY(SortedByY(SubSeq(s, 1, Len(s) - 1)), s[Len(s)])

\* elements_map = {elem['detection_id']: elem for elem in predictions}:
\* for a repeated id the last record of the input wins.
ElementsMap(preds, id) ==
    preds[CHOOSE i \in DOMAIN preds :
            /\ preds[i].detection_id = id
            /\ \A j \in DOMAIN preds : preds[j].detection_id = id => j <= i]

\* option_checkboxes: the checkboxes contained within one option
OptionCheckboxes(sorted, option) ==
    LET cbs == SelectSeq(sorted, LAMBDA cb :
                   cb.class = "checkbox" /\ Within(cb, option))
    IN [k \in DOMAIN cbs |->
           [type |-> "checkbox", detection_id |-> cbs[k].detection_id]]

\* context_options: the checkbox options contained within one context
ContextOptions(sorted, context) ==
    LET opts == SelectSeq(sorted, LAMBDA o :
                    o.class = "checkbox_option" /\ Within(o, context))
    IN [k \in DOMAIN opts |->
           [type |-> "checkbox_option",
            detection_id |-> opts[k].detection_id,
            checkboxes |-> OptionCheckboxes(sorted, opts[k])]]

\* the entry appended for every checkbox context of a table or section
ProcessedContexts(sorted, contexts) ==
    [k \in DOMAIN contexts |->
        [type |-> "checkbox_context",
         detection_id |-> contexts[k].detection_id,
         options |-> ContextOptions(sorted, contexts[k])]]

\* the elements of one class contained within a table (first pass)
TableMembers(sorted, table_id, table_elem, class) ==
    SelectSeq(sorted, LAMBDA o :
        /\ o.detection_id # table_id
        /\ Within(o, table_elem)
        /\ o.class = class)

\* tables[table_id] = {...}
TableEntry(preds, sorted, table_id) ==
    LET table_elem == ElementsMap(preds, table_id)
        table_fields == TableMembers(sorted, table_id, table_elem, "field")
        table_checkbox_contexts ==
            TableMembers(sorted, table_id, table_elem, "checkbox_context")
    IN [type |-> "table",
        detection_id |-> table_id,
        fields |-> [k \in DOMAIN table_fields |->
                       [type |-> "field",
                        detection_id |-> table_fields[k].detection_id]],
        checkbox_contexts |-> ProcessedContexts(sorted, table_checkbox_contexts)]

\* dict assignment d[key] = value on an ordered list of entries
DictPut(d, entry) ==
    IF \E k \in DOMAIN d : d[k].detection_id = entry.detection_id
    THEN [k \in DOMAIN d |->
             IF d[k].detection_id = entry.detection_id THEN entry ELSE d[k]]
    ELSE Append(d, entry)

\* First pass: the tables dict after the first n elements of sorted_elements
RECURSIVE TablesPass(_, _, _)
TablesPass(preds, sorted, n) ==
    IF n = 0 THEN <<>>
    ELSE LET prev == TablesPass(preds, sorted, n - 1)
         IN IF sorted[n].class = "table"
            THEN DictPut(prev, TableEntry(preds, sorted, sorted[n].detection_id))
            ELSE prev

\* Variant of AssignedToTables recording the checkbox contexts only.
AssignedToTables_ContextsOnly(preds, sorted) ==
    {o.detection_id : o \in
        {sorted[k] : k \in {m \in DOMAIN sorted :
            /\ sorted[m].class = "checkbox_context"
            /\ \E n \in DOMAIN sorted :
                  /\ sorted[n].class = "table"
                  /\ sorted[m].detection_id # sorted[n].detection_id
                  /\ Within(sorted[m],
                            ElementsMap(preds, sorted[n].detection_id))}}}

\* assigned_to_tables after the first pass
AssignedToTables(preds, sorted) ==
    {o.detection_id : o \in
        {sorted[k] : k \in {m \in DOMAIN sorted :
            /\ sorted[m].class \in {"field", "checkbox_context"}
            /\ \E n \in DOMAIN sorted :
                  /\ sorted[n].class = "table"
                  /\ sorted[m].detection_id # sorted[n].detection_id
                  /\ Within(sorted[m],
                            ElementsMap(preds, sorted[n].detection_id))}}}

\* the elements of one class contained within a section and not assigned
\* to a table (second pass)
SectionMembers(sorted, section_id, section_elem, class, assigned) ==
    SelectSeq(sorted, LAMBDA o :
        /\ o.detection_id # section_id
        /\ Within(o, section_elem)
        /\ o.class = class
        /\ o.detection_id \notin assigned)

\* sections[section_id] = {...}
SectionEntry(preds, sorted, tables, assigned, section_id) ==
    LET section_elem == ElementsMap(preds, section_id)
        section_fields ==
            SectionMembers(sorted, section_id, section_elem, "field", assigned)
        section_checkbox_contexts ==
            SectionMembers(sorted, section_id, section_elem,
                           "checkbox_context", assigned)
    IN [width |-> section_elem.width,
        height |-> section_elem.height,
        x |-> section_elem.x,
        y |-> section_elem.y,
        class |-> section_elem.class,
        detection_id |-> section_id,
        fields |-> section_fields,
        tables |-> SelectSeq(tables, LAMBDA t :
                       Within(ElementsMap(preds, t.detection_id), section_elem)),
        checkbox_contexts |-> ProcessedContexts(sorted, section_checkbox_contexts)]

\* Second pass: the sections dict after the first n elements of sorted_elements
RECURSIVE SectionsPass(_, _, _, _, _)
SectionsPass(preds, sorted, tables, assigned, n) ==
    IF n = 0 THEN <<>>
    ELSE LET prev == SectionsPass(preds, sorted, tables, assigned, n - 1)
         IN IF sorted[n].class = "section"
            THEN DictPut(prev, SectionEntry(preds, sorted, tables, assigned,
                                            sorted[n].detection_id))
            ELSE prev

\* The value returned by _build_hierarchy
build_hierarchy(preds) ==
    LET sorted == SortedByY(preds)
        tables == TablesPass(preds, sorted, Len(sorted))
        assigned == AssignedToTables(preds, sorted)
    IN SectionsPass(preds, sorted, tables, assigned, Len(sorted))

----------------------------------------------------------------------------
(* Inputs *)

Det(id, class, x, y, w, h) ==
    [detection_id |-> id, class |-> class, x |-> x, y |-> y,
     width |-> w, height |-> h]

\* placeholder for "no detection chosen"
NoDetection == Det(0, "none", 0, 0, 0, 0)

\* placeholder for "no tree"
NoNode == [type |-> "none"]

\* Longest list of detections handed to the builder
MaxDets == 3

\* Boxes <<class, x, y, width, height>> a page may hold: two overlapping
\* sections and a zero-width one, a table, fields inside / across them,
\* one checkbox group (context, option, checkbox) and a title.
PageBoxes ==
    { <<"section", 100, 100, 200, 200>>,
      <<"section", 100, 100, 180, 200>>,
      <<"section", 100, 100, 0, 200>>,
      <<"table", 100, 60, 100, 40>>,
      <<"field", 100, 60, 20, 10>>,
      <<"field", 95, 60, 190, 10>>,
      <<"field", 100, 100, 200, 200>>,
      <<"checkbox_context", 100, 150, 100, 40>>,
      <<"checkbox_option", 100, 150, 60, 20>>,
      <<"checkbox", 75, 150, 10, 10>>,
      <<"title", 100, 10, 100, 10>> }

\* Geometry of the pairs the containment tests are applied to
PairXs == {100, 180}

PairYs == {150, 340, 500}

PairWidths == {0, 90, 100}

PairHeights == {0, 300, 400, 1000}

PairDetections(id) ==
    { Det(id, cl, x, y, w, h) :
        cl \in Classes, x \in PairXs, y \in PairYs,
        w \in PairWidths, h \in PairHeights }

----------------------------------------------------------------------------
(* Specification of the hierarchy builder: a list of detections arrives,   *)
(* then _build_hierarchy runs on it.                                       *)

Init ==
    /\ predictions = <<>>
    /\ pc = "input"
    /\ sections = <<>>
    /\ elem = NoDetection
    /\ cont = NoDetection
    /\ fn = "none"
    /\ contained = "none"
    /\ hierarchy = NoNode
    /\ transformed = NoNode
    /\ extracted_tables = <<>>
    /\ extracted_tables_output = <<>>
    /\ processed_tables = <<>>
    /\ raised = "none"
    /\ base_predictions = NoNode
    /\ merged_predictions = NoNode
    /\ doc_structure = <<>>
    /\ updated_structure = <<>>
    /\ structured_document = NoNode
    /\ final_structured_document = NoNode
    /\ cleaned_document = NoNode
    /\ steps = <<>>
    /\ workflow_predictions = <<>>
    /\ snippets = {}
    /\ predictions_json = [written |-> FALSE, content |-> <<>>]
    /\ main_predictions = [list |-> <<>>]
    /\ ocr_enriched_predictions = <<>>

\* One more detection record in the input file.  Its id is fresh, or (a
\* data error) repeats the id of the first record.
Receive ==
    /\ pc = "input"
    /\ Len(predictions) < MaxDets
    /\ \E b \in PageBoxes, id \in {1, Len(predictions) + 1} :
          predictions' = Append(predictions, Det(id, b[1], b[2], b[3], b[4], b[5]))
    /\ UNCHANGED <<pc, sections, elem, cont, fn, contained>>
    /\ UNCHANGED <<outputVars, parserVars>>
    /\ UNCHANGED <<mergeVars, updateVars, pipelineVars>>

\* structure = self._build_hierarchy(predictions)
BuildHierarchy ==
    /\ pc = "input"
    /\ sections' = build_hierarchy(predictions)
    /\ pc' = "done"
    /\ UNCHANGED <<predictions, elem, cont, fn, contained>>
    /\ UNCHANGED <<outputVars, parserVars>>
    /\ UNCHANGED <<mergeVars, updateVars, pipelineVars>>

Next == Receive \/ BuildHierarchy

Spec == Init /\ [][Next]_vars

----------------------------------------------------------------------------
(* Specification of the containment tests: an ordered pair of detections   *)
(* is drawn, then one of the two functions is applied to it with the       *)
(* default threshold 0.8.                                                  *)

InitContain ==
    /\ predictions = <<>>
    /\ pc = "pair"
    /\ sections = <<>>
    /\ elem \in PairDetections(1)
    /\ cont \in PairDetections(2)
    /\ fn = "none"
    /\ contained = "none"
    /\ hierarchy = NoNode
    /\ transformed = NoNode
    /\ extracted_tables = <<>>
    /\ extracted_tables_output = <<>>
    /\ processed_tables = <<>>
    /\ raised = "none"
    /\ base_predictions = NoNode
    /\ merged_predictions = NoNode
    /\ doc_structure = <<>>
    /\ updated_structure = <<>>
    /\ structured_document = NoNode
    /\ final_structured_document = NoNode
    /\ cleaned_document = NoNode
    /\ steps = <<>>
    /\ workflow_predictions = <<>>
    /\ snippets = {}
    /\ predictions_json = [written |-> FALSE, content |-> <<>>]
    /\ main_predictions = [list |-> <<>>]
    /\ ocr_enriched_predictions = <<>>

\* DocumentStructurer()._is_contained_within(elem, cont)
ApplyDocumentStructurer ==
    /\ fn = "none"
    /\ fn' = "DocumentStructurer"
    /\ contained' = DS_is_contained_within(elem, cont, 8, 10)
    /\ UNCHANGED <<predictions, pc, sections, elem, cont>>
    /\ UNCHANGED <<outputVars, parserVars>>
    /\ UNCHANGED <<mergeVars, updateVars, pipelineVars>>

\* spatial_utils.is_contained_within(elem, cont)
ApplySpatialUtils ==
    /\ fn = "none"
    /\ fn' = "spatial_utils"
    /\ contained' = is_contained_within(elem, cont, 8, 10)
    /\ UNCHANGED <<predictions, pc, sections, elem, cont>>
    /\ UNCHANGED <<outputVars, parserVars>>
    /\ UNCHANGED <<mergeVars, updateVars, pipelineVars>>

NextContain == ApplyDocumentStructurer \/ ApplySpatialUtils

SpecContain == InitContain /\ [][NextContain]_vars

----------------------------------------------------------------------------
(* Reading the hierarchy.  A node is identified by its path from the root  *)
(* (alternating list name and index); root children have parent <<>>.      *)

Node(path, parent, type, id) ==
    [path |-> path, parent |-> parent, type |-> type, id |-> id]

\* nodes of a list of processed checkbox contexts hanging under path p
ContextNodes(p, ctxs) ==
    UNION { LET cp == p \o <<"checkbox_contexts", i>>
            IN {Node(cp, p, "checkbox_context", ctxs[i].detection_id)}
               \cup UNION {
                    LET op == cp \o <<"options", j>>
                        o == ctxs[i].options[j]
                    IN {Node(op, cp, "checkbox_option", o.detection_id)}
                       \cup { Node(op \o <<"checkboxes", k>>, op, "checkbox",
                                   o.checkboxes[k].detection_id)
                              : k \in DOMAIN o.checkboxes }
                    : j \in DOMAIN ctxs[i].options }
          : i \in DOMAIN ctxs }

\* nodes of the tables of one section
TableNodes(p, tabs) ==
    UNION { LET tp == p \o <<"tables", i>>
            IN {Node(tp, p, "table", tabs[i].detection_id)}
               \cup { Node(tp \o <<"fields", k>>, tp, "field",
                           tabs[i].fields[k].detection_id)
                      : k \in DOMAIN tabs[i].fields }
               \cup ContextNodes(tp, tabs[i].checkbox_contexts)
          : i \in DOMAIN tabs }

\* every node of the hierarchy returned by the builder
HierarchyNodes(secs) ==
    UNION { LET sp == <<"sections", i>>
            IN {Node(sp, <<>>, "section", secs[i].detection_id)}
               \cup { Node(sp \o <<"fields", k>>, sp, "field",
                           secs[i].fields[k].detection_id)
                      : k \in DOMAIN secs[i].fields }
               \cup TableNodes(sp, secs[i].tables)
               \cup ContextNodes(sp, secs[i].checkbox_contexts)
          : i \in DOMAIN secs }

NodesWithId(secs, id) == {n \in HierarchyNodes(secs) : n.id = id}

NodeAt(secs, path) == CHOOSE n \in HierarchyNodes(secs) : n.path = path

HasDuplicateIds(preds) ==
    \E i, j \in DOMAIN preds :
        i # j /\ preds[i].detection_id = preds[j].detection_id

IsZeroSized(d) == d.width = 0 \/ d.height = 0

\* box of a lies fully inside box of b (edges included)
FullyInside(a, b) ==
    /\ Left2(a) >= Left2(b) /\ Right2(a) <= Right2(b)
    /\ Top2(a) >= Top2(b) /\ Bottom2(a) <= Bottom2(b)

RemoveAt(s, i) == SubSeq(s, 1, i - 1) \o SubSeq(s, i + 1, Len(s))

----------------------------------------------------------------------------
(* Claims about the hierarchy builder (specification Spec) *)

\* C1 (as stated): after the build, every detection id of the input appears
\* exactly once in the hierarchy - none dropped, none under two parents.
C1_EveryIdExactlyOnce ==
    pc = "done" =>
        \A i \in DOMAIN predictions :
            Cardinality(NodesWithId(sections, predictions[i].detection_id)) = 1

\* C2 (as stated): for every parent/child pair of the hierarchy below the
\* root, the child's box area is at most the parent's box area.
C2_ChildAreaAtMostParentArea ==
    pc = "done" =>
        \A n \in HierarchyNodes(sections) :
            n.parent # <<>> =>
                ElementArea(ElementsMap(predictions, n.id))
                    <= ElementArea(ElementsMap(predictions,
                                       NodeAt(sections, n.parent).id))

\* C7 (as stated): on an input holding two detections with the same
\* detection_id the builder fails instead of returning a hierarchy.
C7_DuplicateIdIsRejected ==
    ~(pc = "done" /\ HasDuplicateIds(predictions))

\* C8 (as stated): a detection of any class with zero width or height
\* appears nowhere in the hierarchy, and the hierarchy is the one built
\* from the input without that detection.
C8_ZeroSizedIsSkipped ==
    pc = "done" =>
        \A i \in DOMAIN predictions :
            IsZeroSized(predictions[i]) =>
                /\ NodesWithId(sections, predictions[i].detection_id) = {}
                /\ sections = build_hierarchy(RemoveAt(predictions, i))

\* the field f is listed exactly once, as a direct field of the section S,
\* which is at top level
FieldOnlyUnder(f, S) ==
    /\ Cardinality(NodesWithId(sections, f.detection_id)) = 1
    /\ \A n \in NodesWithId(sections, f.detection_id) :
          /\ n.type = "field"
          /\ n.parent # <<>>
          /\ NodeAt(sections, n.parent).id = S.detection_id
          /\ NodeAt(sections, n.parent).parent = <<>>

\* C10 (as stated, for inputs with distinct ids): a field whose box lies
\* fully inside the box of exactly one section and of no table is listed
\* exactly once, as a direct field of that section, which is at top level.
C10_FieldInsideOneSection ==
    (pc = "done" /\ ~HasDuplicateIds(predictions)) =>
        \A i, j \in DOMAIN predictions :
            LET f == predictions[i]
                S == predictions[j]
            IN (/\ f.class = "field" /\ S.class = "section"
                /\ FullyInside(f, S)
                /\ \A k \in DOMAIN predictions :
                      (k # j /\ predictions[k].class \in {"section", "table"})
                          => ~FullyInside(f, predictions[k]))
               => FieldOnlyUnder(f, S)

----------------------------------------------------------------------------
(* Claims about the containment tests (specification SpecContain) *)

PositiveSizes(d) == d.width > 0 /\ d.height > 0

\* overlap height / element height >= 3/10
VerticalRatioAtLeast30(e, c) ==
    e.height > 0 /\ OverlapHeight2(e, c) * 10 >= 3 * 2 * e.height

\* overlap width / min(element width, container width) >= 2/10
HorizontalRatioAtLeast20(e, c) ==
    /\ Min(e.width, c.width) > 0
    /\ OverlapWidth2(e, c) * 10 >= 2 * 2 * Min(e.width, c.width)

\* element's vertical span within the container's span extended by m px
WithinVerticalMargin(e, c, m) ==
    Top2(e) >= Top2(c) - 2 * m /\ Bottom2(e) <= Bottom2(c) + 2 * m

\* the boxes intersect and overlap area / element area > num/den
RatioGreater(e, c, num, den) ==
    /\ OverlapWidth2(e, c) > 0 /\ OverlapHeight2(e, c) > 0
    /\ e.width * e.height > 0
    /\ OverlapWidth2(e, c) * OverlapHeight2(e, c) * den
           > 4 * num * e.width * e.height

\* distance between the near edges of the two boxes below p px
NearEdgesWithin(e, c, p) ==
    \/ Abs(Top2(e) - Bottom2(c)) < 2 * p
    \/ Abs(Bottom2(e) - Top2(c)) < 2 * p

\* vertical span of a inside the vertical span of b
SpanInside(a, b) == Top2(a) >= Top2(b) /\ Bottom2(a) <= Bottom2(b)

\* C3 (as stated): a table is contained exactly when vertical ratio >= 0.3,
\* horizontal ratio >= 0.2 and its vertical span lies within the container's
\* span extended by 100 px.
C3_TableNeedsMargin ==
    (fn # "none" /\ elem.class = "table") =>
        (contained = "True" <=>
            /\ VerticalRatioAtLeast30(elem, cont)
            /\ HorizontalRatioAtLeast20(elem, cont)
            /\ WithinVerticalMargin(elem, cont, 100))

\* C3 (amended): a table is contained exactly when vertical ratio >= 0.3 and
\* horizontal ratio >= 0.2; the 100 px margin never rejects a table.
C3_TableRatiosOnly ==
    (fn # "none" /\ elem.class = "table") =>
        (contained = "True" <=>
            /\ VerticalRatioAtLeast30(elem, cont)
            /\ HorizontalRatioAtLeast20(elem, cont))

\* a table reaching more than 100 px beyond the container is contained
C3_Witness ==
    /\ fn # "none" /\ elem.class = "table"
    /\ ~WithinVerticalMargin(elem, cont, 100)
    /\ contained = "True"

\* C4 (as stated): a checkbox_option is contained in a checkbox_context
\* exactly when overlap ratio > 0.2 and the boxes are vertically close
\* within 120 px.
C4_OptionRule20 ==
    (fn # "none" /\ elem.class = "checkbox_option"
                 /\ cont.class = "checkbox_context") =>
        (contained = "True" <=>
            /\ RatioGreater(elem, cont, 2, 10)
            /\ (NearEdgesWithin(elem, cont, 120) \/ SpanInside(elem, cont)))

\* C4 (amended): the rule for (checkbox | checkbox_option in checkbox_context)
\* matches first: DocumentStructurer contains the option exactly when overlap
\* ratio > 0.1 and vertically close within 100 px, spatial_utils exactly when
\* overlap ratio > 0.05 and vertically close within 150 px.
C4_OptionFirstMatch ==
    (fn # "none" /\ elem.class = "checkbox_option"
                 /\ cont.class = "checkbox_context") =>
        /\ fn = "DocumentStructurer" =>
             (contained = "True" <=>
                /\ RatioGreater(elem, cont, 1, 10)
                /\ (NearEdgesWithin(elem, cont, 100) \/ SpanInside(elem, cont)))
        /\ fn = "spatial_utils" =>
             (contained = "True" <=>
                /\ RatioGreater(elem, cont, 5, 100)
                /\ (NearEdgesWithin(elem, cont, 150) \/ SpanInside(elem, cont)))

\* an option with overlap ratio in (0.1, 0.2] that is contained
C4_Witness ==
    /\ fn = "DocumentStructurer"
    /\ elem.class = "checkbox_option" /\ cont.class = "checkbox_context"
    /\ RatioGreater(elem, cont, 1, 10) /\ ~RatioGreater(elem, cont, 2, 10)
    /\ contained = "True"

\* a table fully inside a section of larger area, all sizes positive
TableInsideLargerSection(T, S) ==
    /\ T.class = "table" /\ S.class = "section"
    /\ PositiveSizes(T) /\ PositiveSizes(S)
    /\ FullyInside(T, S)
    /\ S.width * S.height > T.width * T.height

\* C5 (as stated): for a table T fully inside a larger section S,
\* contains(T, S) is true and contains(S, T) is false.
C5_Asymmetry ==
    fn # "none" =>
        /\ TableInsideLargerSection(elem, cont) => contained = "True"
        /\ TableInsideLargerSection(cont, elem) => contained = "False"

\* C5 (amended): contains(T, S) is true; contains(S, T) is false when T
\* covers at most 80% of the area of S and true when it covers more.
C5_AsymmetryUpTo80 ==
    fn # "none" =>
        /\ TableInsideLargerSection(elem, cont) => contained = "True"
        /\ TableInsideLargerSection(cont, elem) =>
              contained = Bool(10 * cont.width * cont.height
                                  > 8 * elem.width * elem.height)

\* the section tested against a table inside it that covers <= 80% of it
C5_Witness ==
    /\ fn # "none"
    /\ TableInsideLargerSection(cont, elem)
    /\ 10 * cont.width * cont.height <= 8 * elem.width * elem.height
    /\ contained = "False"

\* The proximity rules in force: <<num, den, px>> of the first matching rule
ProximityPair(e, c) ==
    \/ e.class \in {"checkbox", "checkbox_option"} /\ c.class = "checkbox_context"
    \/ e.class = "checkbox" /\ c.class = "checkbox_option"
    \/ e.class = "checkbox_context" /\ c.class = "section"

RuleInForce(f, e, c) ==
    IF c.class = "checkbox_context"
        THEN (IF f = "DocumentStructurer" THEN <<1, 10, 100>> ELSE <<5, 100, 150>>)
    ELSE IF c.class = "checkbox_option"
        THEN (IF f = "DocumentStructurer" THEN <<5, 100, 80>> ELSE <<2, 100, 100>>)
    ELSE (IF f = "DocumentStructurer" THEN <<3, 10, 150>> ELSE <<1, 10, 300>>)

\* the overlap part of the rule in force holds, so that the outcome of the
\* test is the outcome of its vertically-close part
OverlapPartHolds(f, e, c) ==
    RatioGreater(e, c, RuleInForce(f, e, c)[1], RuleInForce(f, e, c)[2])

\* C6 (as stated): the vertically-close test is true whenever the near edges
\* are closer than the rule's threshold or either vertical span lies inside
\* the other, the container's inside the element's included.
C6_CloseEitherSpanInside ==
    (fn # "none" /\ ProximityPair(elem, cont)
                 /\ OverlapPartHolds(fn, elem, cont)) =>
        ((\/ NearEdgesWithin(elem, cont, RuleInForce(fn, elem, cont)[3])
          \/ SpanInside(elem, cont)
          \/ SpanInside(cont, elem))
            => contained = "True")

\* C6 (amended): the test is true whenever the near edges are closer than the
\* threshold or the element's span lies inside the container's; it is false
\* when only the container's span lies inside the element's.
C6_CloseElementSpanInside ==
    (fn # "none" /\ ProximityPair(elem, cont)
                 /\ OverlapPartHolds(fn, elem, cont)) =>
        /\ (\/ NearEdgesWithin(elem, cont, RuleInForce(fn, elem, cont)[3])
            \/ SpanInside(elem, cont))
              => contained = "True"
        /\ (/\ SpanInside(cont, elem)
            /\ ~NearEdgesWithin(elem, cont, RuleInForce(fn, elem, cont)[3])
            /\ ~SpanInside(elem, cont))
              => contained = "False"

\* container's span inside the element's, edges far apart: not close
C6_Witness ==
    /\ fn # "none" /\ ProximityPair(elem, cont)
    /\ OverlapPartHolds(fn, elem, cont)
    /\ SpanInside(cont, elem) /\ ~SpanInside(elem, cont)
    /\ ~NearEdgesWithin(elem, cont, RuleInForce(fn, elem, cont)[3])
    /\ contained = "False"

\* C9: for non-negative sizes DocumentStructurer's test never divides by
\* zero, and it answers false whenever the element or the container has
\* zero width or zero height, for every class pair.
C9_NoDivisionByZero ==
    fn = "DocumentStructurer" =>
        /\ contained # "ZeroDivisionError"
        /\ (IsZeroSized(elem) \/ IsZeroSized(cont)) => contained = "False"

\* a zero-height element lying across a container of positive size
C9_Witness ==
    /\ fn = "DocumentStructurer"
    /\ elem.height = 0 /\ elem.width > 0 /\ PositiveSizes(cont)
    /\ OverlapWidth2(elem, cont) > 0
    /\ Top2(elem) > Top2(cont) /\ Bottom2(elem) < Bottom2(cont)
    /\ contained = "False"

----------------------------------------------------------------------------
(* Claims about the order of siblings (specification Spec) *)

\* The sibling lists the builder returns, as lists of detection records:
\* the top-level sections, the fields of every section, the fields of every
\* table (a table lists its fields by id; the record is looked up).
SiblingLists(preds, secs) ==
    {secs}
    \cup {secs[i].fields : i \in DOMAIN secs}
    \cup UNION { { [k \in DOMAIN secs[i].tables[j].fields |->
                      ElementsMap(preds, secs[i].tables[j].fields[k].detection_id)]
                  : j \in DOMAIN secs[i].tables }
               : i \in DOMAIN secs }

\* position of the record with this id in the input list (ids distinct)
InputIndex(preds, id) == CHOOSE i \in DOMAIN preds : preds[i].detection_id = id

OrderedByYThenX(s) ==
    \A i, j \in DOMAIN s :
        i < j => \/ s[i].y < s[j].y
                 \/ s[i].y = s[j].y /\ s[i].x <= s[j].x

OrderedByYThenInput(preds, s) ==
    \A i, j \in DOMAIN s :
        i < j => \/ s[i].y < s[j].y
                 \/ /\ s[i].y = s[j].y
                    /\ InputIndex(preds, s[i].detection_id)
                         < InputIndex(preds, s[j].detection_id)

\* C11 (as stated): whatever the order of the input, the top-level sections
\* and the fields under each section or table come out sorted by (y, then x).
\* Stated for inputs with distinct ids, so that a failure is one of the
\* ordering alone.
C11_SiblingsByYThenX ==
    (pc = "done" /\ ~HasDuplicateIds(predictions)) =>
        \A s \in SiblingLists(predictions, sections) : OrderedByYThenX(s)

\* C11 (amended): for an input with distinct ids, the top-level sections and
\* the fields under each section or table come out sorted by ascending y;
\* siblings of equal y keep the order they had in the input, whatever their x.
C11_SiblingsByYThenInputOrder ==
    (pc = "done" /\ ~HasDuplicateIds(predictions)) =>
        \A s \in SiblingLists(predictions, sections) :
            OrderedByYThenInput(predictions, s)

\* Two sibling fields of equal y are listed in input order although the
\* first lies to the right of the second.
C11_Witness ==
    /\ pc = "done"
    /\ ~HasDuplicateIds(predictions)
    /\ \E s \in SiblingLists(predictions, sections) :
          \E i, j \in DOMAIN s :
              /\ i < j
              /\ s[i].class = "field"
              /\ s[i].y = s[j].y
              /\ s[i].x > s[j].x

----------------------------------------------------------------------------
(* transform_hierarchy_for_output(node)  (src/src/test_doc_structure.py)   *)
(*                                                                         *)
(* A node of the hierarchy is a Python dict, modelled as a function from   *)
(* its keys to their values; a key the dict does not hold is not in the    *)
(* DOMAIN.  The keys the function reads are type, text, box and children;  *)
(* any other key is carried by the deep copy untouched and is left out.    *)
(* A box is a dict [x, y, width, height] or, once formatted, a string,     *)
(* modelled as [str |-> "x y width height"] so that isinstance(box, dict)  *)
(* can be told from the value.                                             *)

\* del d[key]
DeleteKey(d, key) == [k \in DOMAIN d \ {key} |-> d[k]]

\* isinstance(box, dict)
IsDict(box) == "str" \notin DOMAIN box

\* f"{box.get('x', 0)} {box.get('y', 0)} {box.get('width', 0)} {box.get('height', 0)}"
FormatBox(box) ==
    LET get(key) == IF key \in DOMAIN box THEN box[key] ELSE 0
    IN [str |-> ToString(get("x")) \o " " \o ToString(get("y")) \o " "
                \o ToString(get("width")) \o " " \o ToString(get("height"))]

\* The value returned by transform_hierarchy_for_output(node)
RECURSIVE transform_hierarchy_for_output(_)
transform_hierarchy_for_output(node) ==
    LET copied == node
        untexted ==
            IF /\ "type" \in DOMAIN copied
               /\ copied.type \in {"section", "table"}
               /\ "text" \in DOMAIN copied
            THEN DeleteKey(copied, "text")
            ELSE copied
        boxed ==
            IF "box" \in DOMAIN untexted /\ IsDict(untexted.box)
            THEN [untexted EXCEPT !.box = FormatBox(@)]
            ELSE untexted
    IN IF "children" \in DOMAIN boxed
       THEN [boxed EXCEPT !.children =
                [i \in DOMAIN @ |-> transform_hierarchy_for_output(@[i])]]
       ELSE boxed

\* Variant of ArgumentAfterTransform for a function that works on the node
\* it was given (no copy): the caller's tree then holds every edit.
ArgumentAfterTransform_NoCopy(node) == transform_hierarchy_for_output(node)

\* The caller's tree after the call: every edit is made on
\* copy.deepcopy(node) or on a list built anew, never on node itself.
ArgumentAfterTransform(node) == node

\* Paths (lists of child indices) of all nodes of a tree
RECURSIVE TreePaths(_)
TreePaths(node) ==
    {<<>>} \cup
    (IF "children" \in DOMAIN node
     THEN UNION { {<<i>> \o p : p \in TreePaths(node.children[i])}
                  : i \in DOMAIN node.children }
     ELSE {})

\* The node at a path
RECURSIVE SubTree(_, _)
SubTree(node, path) ==
    IF path = <<>> THEN node
    ELSE SubTree(node.children[Head(path)], Tail(path))

\* The tree with one more child, last under the node at path
RECURSIVE AppendChild(_, _, _)
AppendChild(node, path, child) ==
    IF path = <<>>
    THEN IF "children" \in DOMAIN node
         THEN [node EXCEPT !.children = Append(@, child)]
         ELSE node @@ [children |-> <<child>>]
    ELSE [node EXCEPT !.children[Head(path)] =
              AppendChild(@, Tail(path), child)]

\* Most nodes of a tree handed to the function, root included
MaxNodes == 5

\* Nodes a hierarchy may hold: sections and tables with (gibberish) OCR
\* text, a section without text whose box is already a string, fields with
\* a text and with the empty text.
TreeNodes ==
    { [type |-> "section", text |-> "S3ct10n",
       box |-> [x |-> 100, y |-> 100, width |-> 200, height |-> 200]],
      [type |-> "table", text |-> "T@ble",
       box |-> [x |-> 100, y |-> 60, width |-> 100, height |-> 40]],
      [type |-> "section", box |-> [str |-> "100 100 180 200"]],
      [type |-> "field", text |-> "Name",
       box |-> [x |-> 100, y |-> 60, width |-> 20, height |-> 10]],
      [type |-> "field", text |-> "",
       box |-> [x |-> 95, y |-> 60, width |-> 190, height |-> 10]] }

\* The root of a hierarchy: the synthetic document node, without box or text
RootNode == [type |-> "document"]

----------------------------------------------------------------------------
(* Specification of the output transformation: a hierarchy is assembled    *)
(* node by node, then transform_hierarchy_for_output runs on it.           *)

InitOutput ==
    /\ predictions = <<>>
    /\ pc = "tree"
    /\ sections = <<>>
    /\ elem = NoDetection
    /\ cont = NoDetection
    /\ fn = "none"
    /\ contained = "none"
    /\ hierarchy = RootNode
    /\ transformed = NoNode
    /\ extracted_tables = <<>>
    /\ extracted_tables_output = <<>>
    /\ processed_tables = <<>>
    /\ raised = "none"
    /\ base_predictions = NoNode
    /\ merged_predictions = NoNode
    /\ doc_structure = <<>>
    /\ updated_structure = <<>>
    /\ structured_document = NoNode
    /\ final_structured_document = NoNode
    /\ cleaned_document = NoNode
    /\ steps = <<>>
    /\ workflow_predictions = <<>>
    /\ snippets = {}
    /\ predictions_json = [written |-> FALSE, content |-> <<>>]
    /\ main_predictions = [list |-> <<>>]
    /\ ocr_enriched_predictions = <<>>

\* One more node in the hierarchy, as the last child of an existing node
AddNode ==
    /\ pc = "tree"
    /\ Cardinality(TreePaths(hierarchy)) < MaxNodes
    /\ \E path \in TreePaths(hierarchy), child \in TreeNodes :
          hierarchy' = AppendChild(hierarchy, path, child)
    /\ UNCHANGED <<predictions, pc, sections, elem, cont, fn, contained>>
    /\ UNCHANGED <<transformed, parserVars>>
    /\ UNCHANGED <<mergeVars, updateVars, pipelineVars>>

\* output_hierarchy = transform_hierarchy_for_output(hierarchy)
TransformHierarchy ==
    /\ pc = "tree"
    /\ transformed' = transform_hierarchy_for_output(hierarchy)
    /\ hierarchy' = ArgumentAfterTransform(hierarchy)
    /\ pc' = "transformed"
    /\ UNCHANGED <<predictions, sections, elem, cont, fn, contained>>
    /\ UNCHANGED parserVars
    /\ UNCHANGED <<mergeVars, updateVars, pipelineVars>>

NextOutput == AddNode \/ TransformHierarchy

SpecOutput == InitOutput /\ [][NextOutput]_vars

----------------------------------------------------------------------------
(* Claims about the output transformation (specification SpecOutput) *)

\* the returned tree has the shape of the input and, node by node, no text
\* on a section or table and the input's text (or absence of text) elsewhere
TextDroppedOnlyOnSectionsAndTables(input, output) ==
    /\ TreePaths(output) = TreePaths(input)
    /\ \A p \in TreePaths(input) :
          LET n == SubTree(input, p)
              t == SubTree(output, p)
          IN /\ t.type = n.type
             /\ IF n.type \in {"section", "table"}
                THEN "text" \notin DOMAIN t
                ELSE /\ ("text" \in DOMAIN t) <=> ("text" \in DOMAIN n)
                     /\ "text" \in DOMAIN n => t.text = n.text

\* C12: the tree returned by transform_hierarchy_for_output has no text key
\* on any node of type section or table at any depth, keeps the text of
\* every node of any other type exactly as it was, and the call leaves the
\* input tree unmodified.
C12_TextDroppedInputKept ==
    [][pc' = "transformed" =>
          /\ hierarchy' = hierarchy
          /\ TextDroppedOnlyOnSectionsAndTables(hierarchy, transformed')]_vars

\* A transformed tree whose input holds, two levels below the root, a table
\* with text and, below it, a field with a non-empty text.
C12_Witness ==
    /\ pc = "transformed"
    /\ \E p \in TreePaths(hierarchy) :
          /\ Len(p) = 2
          /\ SubTree(hierarchy, p).type = "table"
          /\ "text" \in DOMAIN SubTree(hierarchy, p)
          /\ "text" \notin DOMAIN SubTree(transformed, p)
          /\ \E i \in 1..2 :
                /\ (p \o <<i>>) \in TreePaths(hierarchy)
                /\ SubTree(hierarchy, p \o <<i>>).type = "field"
                /\ SubTree(transformed, p \o <<i>>).text = "Name"

----------------------------------------------------------------------------
(* TableParser  (src/src/table_parser.py)                                  *)
(*                                                                         *)
(* A field of an extracted table is a dict with the keys id, type, text,   *)
(* box and confidence; the parser may add the key context.  It is modelled *)
(* as a function from its keys to their values.  The box is the string     *)
(* "x y width height"; the model keeps it as the list of its whitespace-   *)
(* separated tokens, each token a string, so that box.split() is that list *)
(* and float(token) is a conversion from a numeral to a number.            *)
(* The fields of a table are a list; the parser works on the dicts of the  *)
(* list in place, so the model names a field by its index in the list.     *)
(* A Python dict keyed by a coordinate is an ordered list of entries       *)
(* [key, value] with distinct keys.  None, where only its truth value is   *)
(* read, is the empty string.                                              *)

\* x < 200: a field left of this abscissa may be a row header
LeftThreshold == 200

\* abs(y - row_y) < 5: tolerance of the row grouping of a single-axis table
RowTolerance == 5

\* round(y / 5) * 5: grid of the row grouping of a double-axis table
RowGrid == 5

\* The coordinates are whole or half numbers; the model holds a number as
\* the integer twice its value, so that 7.5 is 15 and 200 is 400.
Num(n) == 2 * n

\* The numbers the coordinate tokens of the boxes spell, doubled
Coordinates ==
    {Num(n) : n \in {0, 10, 30, 32, 33, 36, 40, 50, 60, 70, 100, 110, 125,
                     150, 200, 220, 250, 260, 290, 300, 350}}
        \cup {15, 25}

\* str(v) for each of them: "7.5" for 15, "200" for 400
Numeral ==
    [n \in Coordinates |->
        IF n % 2 = 0 THEN ToString(n \div 2)
        ELSE ToString(n \div 2) \o ".5"]

\* float(token), doubled
Float(token) == CHOOSE n \in Coordinates : Numeral[n] = token

\* field.get("text") as a condition
HasText(f) == f.text # ""

\* len(box) >= 4 for box = field.get("box", "").split()
WellFormed(f) == Len(f.box) >= 4

\* x = float(box[0])
BoxX(f) == Float(f.box[1])

\* y = float(box[1])
BoxY(f) == Float(f.box[2])

\* round(y / 5) * 5: Python's round() takes a half-way quotient to the even
\* integer (7.5 / 5 = 1.5 and 12.5 / 5 = 2.5 both give 2).  y and the
\* result are doubled numbers.
RoundToGrid(y) ==
    LET whole == y \div Num(RowGrid)
        rest == y % Num(RowGrid)
        rounded == IF 2 * rest < Num(RowGrid) THEN whole
                   ELSE IF 2 * rest > Num(RowGrid) THEN whole + 1
                   ELSE IF whole % 2 = 0 THEN whole
                   ELSE whole + 1
    IN Num(rounded * RowGrid)

\* d[key] = value on an ordered list of entries [key, value]
PutKey(d, key, value) ==
    IF \E k \in DOMAIN d : d[k].key = key
    THEN [k \in DOMAIN d |->
             IF d[k].key = key THEN [key |-> key, value |-> value] ELSE d[k]]
    ELSE Append(d, [key |-> key, value |-> value])

\* key in d
HasKey(d, key) == \E k \in DOMAIN d : d[k].key = key

\* d.get(key), None being ""
GetKey(d, key) ==
    IF HasKey(d, key) THEN d[CHOOSE k \in DOMAIN d : d[k].key = key].value
    ELSE ""

\* Variant of ClosestEntry taking the first entry whatever its distance.
ClosestEntry_FirstEntry(d, v) == IF d = <<>> THEN 0 ELSE 1

\* The position in d of the first entry whose key is nearest to v (the
\* result of min(d.keys(), key=...) and of a loop keeping the first strict
\* minimum); 0 for an empty d.
ClosestEntry(d, v) ==
    IF d = <<>> THEN 0
    ELSE CHOOSE k \in DOMAIN d :
            /\ \A j \in DOMAIN d : Abs(d[k].key - v) <= Abs(d[j].key - v)
            /\ \A j \in DOMAIN d : j < k => Abs(d[j].key - v) > Abs(d[k].key - v)

\* sorted(rows.items()): rows, a set of [row_y, members] with distinct row_y,
\* as a list by ascending row_y
SortedRows(rows) ==
    [k \in 1..Cardinality(rows) |->
        CHOOSE r \in rows : Cardinality({q \in rows : q.row_y < r.row_y}) = k - 1]

\* the fields that are grouped into rows
InRows(f) == f.type = "field" /\ WellFormed(f)

\* Variant of is_double_axis_table counting only the left texts of the
\* rows below the first row that holds a text (the header row).
is_double_axis_table_OutsideHeaderRow(fields) ==
    LET texts == {i \in DOMAIN fields : InRows(fields[i]) /\ HasText(fields[i])}
        header_y == CHOOSE y \in {BoxY(fields[i]) : i \in texts} :
                        \A i \in texts : y <= BoxY(fields[i])
        left_fields == {i \in texts :
                          /\ BoxX(fields[i]) < Num(LeftThreshold)
                          /\ BoxY(fields[i]) - header_y >= Num(RowTolerance)}
    IN texts # {} /\ left_fields # {}

\* _is_double_axis_table(fields)
is_double_axis_table(fields) ==
    LET left_fields == {i \in DOMAIN fields :
                          /\ fields[i].type = "field"
                          /\ HasText(fields[i])
                          /\ WellFormed(fields[i])
                          /\ BoxX(fields[i]) < Num(LeftThreshold)}
        unique_left_texts == {fields[i].text : i \in left_fields}
    IN Cardinality(unique_left_texts) > 1

\* column_headers after the first n fields of a header row
RECURSIVE ColumnHeadersPass(_, _, _)
ColumnHeadersPass(fields, members, n) ==
    IF n = 0 THEN <<>>
    ELSE LET prev == ColumnHeadersPass(fields, members, n - 1)
             f == fields[members[n]]
         IN IF HasText(f) /\ WellFormed(f)
            THEN PutKey(prev, BoxX(f), f.text)
            ELSE prev

ColumnHeaders(fields, members) ==
    ColumnHeadersPass(fields, members, Len(members))

\* The text of the leftmost field with text left of the threshold among the
\* fields of a row (the first one for equal x); "" if there is none.
LeftmostText(fields, members) ==
    LET cands == {k \in DOMAIN members :
                    /\ HasText(fields[members[k]])
                    /\ WellFormed(fields[members[k]])
                    /\ BoxX(fields[members[k]]) < Num(LeftThreshold)}
    IN IF cands = {} THEN ""
       ELSE fields[members[
                CHOOSE k \in cands :
                    \A j \in cands :
                        LET xk == BoxX(fields[members[k]])
                            xj == BoxX(fields[members[j]])
                        IN xk < xj \/ (xk = xj /\ k <= j)]].text

\* any(field.get("text") for field in row_fields)
RowHasText(fields, row) ==
    \E k \in DOMAIN row.members : HasText(fields[row.members[k]])

\* Variant of WithContexts writing the label over the text of the field
\* (field["text"] = label) and adding no key.
WithContexts_IntoText(fields, labels) ==
    [i \in DOMAIN fields |->
        IF i \in DOMAIN labels
        THEN [fields[i] EXCEPT !.text = labels[i]]
        ELSE fields[i]]

\* field["context"] = label for every index in the domain of labels
WithContexts(fields, labels) ==
    [i \in DOMAIN fields |->
        IF i \in DOMAIN labels
        THEN [k \in DOMAIN fields[i] \cup {"context"} |->
                 IF k = "context" THEN labels[i] ELSE fields[i][k]]
        ELSE fields[i]]

(* _parse_double_axis_table *)

\* rows of a double-axis table: fields of equal rounded y, by ascending key
DoubleRows(fields) ==
    LET n == Len(fields)
        keys == {RoundToGrid(BoxY(fields[i])) :
                    i \in {j \in 1..n : InRows(fields[j])}}
    IN SortedRows({ [row_y |-> key,
                     members |-> SelectSeq([i \in 1..n |-> i], LAMBDA i :
                         /\ InRows(fields[i])
                         /\ RoundToGrid(BoxY(fields[i])) = key)]
                    : key \in keys })

\* position in sorted_rows of the first row holding a text; 0 if none
DoubleHeaderRow(fields, sorted_rows) ==
    IF \E k \in DOMAIN sorted_rows : RowHasText(fields, sorted_rows[k])
    THEN CHOOSE k \in DOMAIN sorted_rows :
            /\ RowHasText(fields, sorted_rows[k])
            /\ \A j \in 1..(k - 1) : ~RowHasText(fields, sorted_rows[j])
    ELSE 0

\* row_headers after the loop "Process each row" over the first n rows
RECURSIVE OwnRowHeaders(_, _, _, _)
OwnRowHeaders(fields, sorted_rows, header_y, n) ==
    IF n = 0 THEN <<>>
    ELSE LET prev == OwnRowHeaders(fields, sorted_rows, header_y, n - 1)
             row == sorted_rows[n]
             text == LeftmostText(fields, row.members)
         IN IF row.row_y = header_y \/ text = "" THEN prev
            ELSE PutKey(prev, row.row_y, text)

\* row_headers after the loop "Fill in missing row headers" over the first
\* n rows: the dict is written while the loop runs, so a row filled earlier
\* is among the candidates of a later row.
RECURSIVE FilledRowHeaders(_, _, _, _)
FilledRowHeaders(fields, sorted_rows, header_y, n) ==
    IF n = 0
    THEN OwnRowHeaders(fields, sorted_rows, header_y, Len(sorted_rows))
    ELSE LET prev == FilledRowHeaders(fields, sorted_rows, header_y, n - 1)
             row_y == sorted_rows[n].row_y
             closest == ClosestEntry(prev, row_y)
         IN IF row_y = header_y \/ HasKey(prev, row_y) THEN prev
            ELSE IF closest # 0 /\ prev[closest].key # 0
                 THEN PutKey(prev, row_y, prev[closest].value)
                 ELSE prev

\* Variant of DoubleLabel writing "<ColumnHeader><RowHeader>".
DoubleLabel_HeaderThenRow(row_header, column_header) ==
    column_header \o row_header

\* the context written into an empty field of a double-axis table
DoubleLabel(row_header, column_header) ==
    row_header \o " " \o column_header

\* The outcome of _parse_double_axis_table: the exception raised ("none" if
\* none) and the fields list after the call.
parse_double_axis_table(fields) ==
    LET sorted_rows == DoubleRows(fields)
        header == DoubleHeaderRow(fields, sorted_rows)
        header_y == sorted_rows[header].row_y
        column_headers == ColumnHeaders(fields, sorted_rows[header].members)
        row_headers ==
            FilledRowHeaders(fields, sorted_rows, header_y, Len(sorted_rows))
        RowOf(i) == CHOOSE k \in DOMAIN sorted_rows :
                        \E m \in DOMAIN sorted_rows[k].members :
                            sorted_rows[k].members[m] = i
        labelled == {i \in DOMAIN fields :
                        /\ InRows(fields[i])
                        /\ sorted_rows[RowOf(i)].row_y # header_y
                        /\ GetKey(row_headers, sorted_rows[RowOf(i)].row_y) # ""
                        /\ fields[i].text = ""}
        Label(i) ==
            DoubleLabel(
                GetKey(row_headers, sorted_rows[RowOf(i)].row_y),
                column_headers[
                    ClosestEntry(column_headers, BoxX(fields[i]))].value)
    IN IF header = 0
       THEN [raised |-> "none", fields |-> fields]
       ELSE IF labelled # {} /\ column_headers = <<>>
       THEN [raised |-> "ValueError", fields |-> fields]
       ELSE [raised |-> "none",
             fields |-> WithContexts(fields, [i \in labelled |-> Label(i)])]

(* _parse_single_axis_table *)

\* Variant of SingleRowsPass where a field joins the first row there is,
\* however far its key.
RECURSIVE SingleRowsPass_AnyRow(_, _)
SingleRowsPass_AnyRow(fields, n) ==
    IF n = 0 THEN <<>>
    ELSE LET prev == SingleRowsPass_AnyRow(fields, n - 1)
             f == fields[n]
         IN IF ~InRows(f) THEN prev
            ELSE IF prev # <<>>
                 THEN [prev EXCEPT ![1].members = Append(@, n)]
                 ELSE Append(prev, [row_y |-> BoxY(f), members |-> <<n>>])

\* rows (in insertion order) after the first n fields: a field joins the
\* first row whose key is nearer than the tolerance, else opens a row keyed
\* by its own y
RECURSIVE SingleRowsPass(_, _)
SingleRowsPass(fields, n) ==
    IF n = 0 THEN <<>>
    ELSE LET prev == SingleRowsPass(fields, n - 1)
             f == fields[n]
             near == {k \in DOMAIN prev :
                        Abs(BoxY(f) - prev[k].row_y) < Num(RowTolerance)}
         IN IF ~InRows(f) THEN prev
            ELSE IF near # {}
                 THEN LET k == CHOOSE a \in near : \A b \in near : a <= b
                      IN [prev EXCEPT ![k].members = Append(@, n)]
                 ELSE Append(prev, [row_y |-> BoxY(f), members |-> <<n>>])

SingleRows(fields) ==
    LET rows == SingleRowsPass(fields, Len(fields))
    IN SortedRows({rows[k] : k \in DOMAIN rows})

\* number of fields with text in a row
TextFields(fields, row) ==
    Cardinality({k \in DOMAIN row.members : HasText(fields[row.members[k]])})

\* title_fields of a row is not empty
HasTitleField(fields, row) ==
    \E k \in DOMAIN row.members : fields[row.members[k]].type = "title"

\* Variant of FirstRowWithTexts taking the first row that holds a text,
\* whatever the number asked for.
FirstRowWithTexts_AnyText(fields, sorted_rows, least) ==
    LET Fits(k) == /\ ~HasTitleField(fields, sorted_rows[k])
                   /\ TextFields(fields, sorted_rows[k]) > 0
    IN IF \E k \in DOMAIN sorted_rows : Fits(k)
       THEN CHOOSE k \in DOMAIN sorted_rows :
                Fits(k) /\ \A j \in 1..(k - 1) : ~Fits(j)
       ELSE 0

\* position in sorted_rows of the first row without title holding more than
\* least text fields; 0 if none
FirstRowWithTexts(fields, sorted_rows, least) ==
    LET Fits(k) == /\ ~HasTitleField(fields, sorted_rows[k])
                   /\ TextFields(fields, sorted_rows[k]) > least
    IN IF \E k \in DOMAIN sorted_rows : Fits(k)
       THEN CHOOSE k \in DOMAIN sorted_rows :
                Fits(k) /\ \A j \in 1..(k - 1) : ~Fits(j)
       ELSE 0

\* Variant of SingleHeaderRow taking the topmost row, with or without text.
SingleHeaderRow_TopRow(fields, sorted_rows) ==
    IF sorted_rows = <<>> THEN 0 ELSE 1

\* position of the header row: the first row with several texts, else the
\* first row with a text; 0 if none
SingleHeaderRow(fields, sorted_rows) ==
    IF FirstRowWithTexts(fields, sorted_rows, 1) # 0
    THEN FirstRowWithTexts(fields, sorted_rows, 1)
    ELSE FirstRowWithTexts(fields, sorted_rows, 0)

\* Variant of SingleLabel writing "<ColumnHeader><RowIndex>" for a row
\* without identifier.
SingleLabel_HeaderThenIndex(row_identifier, closest_header, row_idx) ==
    IF closest_header # ""
    THEN IF row_identifier # ""
         THEN row_identifier \o " - " \o closest_header
         ELSE closest_header \o ToString(row_idx)
    ELSE IF row_identifier # ""
         THEN row_identifier
         ELSE "Row " \o ToString(row_idx)

\* the context written into an empty field of row number row_idx (counted
\* from 0 over all rows) of a single-axis table
SingleLabel(row_identifier, closest_header, row_idx) ==
    IF closest_header # ""
    THEN IF row_identifier # ""
         THEN row_identifier \o " - " \o closest_header
         ELSE "Row " \o ToString(row_idx) \o " - " \o closest_header
    ELSE IF row_identifier # ""
         THEN row_identifier
         ELSE "Row " \o ToString(row_idx)

\* The outcome of _parse_single_axis_table
parse_single_axis_table(fields) ==
    LET sorted_rows == SingleRows(fields)
        header == SingleHeaderRow(fields, sorted_rows)
        column_headers == ColumnHeaders(fields, sorted_rows[header].members)
        RowOf(i) == CHOOSE k \in DOMAIN sorted_rows :
                        \E m \in DOMAIN sorted_rows[k].members :
                            sorted_rows[k].members[m] = i
        labelled == {i \in DOMAIN fields :
                        /\ InRows(fields[i])
                        /\ RowOf(i) # header
                        /\ fields[i].text = ""}
        ClosestHeader(i) ==
            IF column_headers = <<>> THEN ""
            ELSE column_headers[
                     ClosestEntry(column_headers, BoxX(fields[i]))].value
        Label(i) ==
            SingleLabel(LeftmostText(fields, sorted_rows[RowOf(i)].members),
                        ClosestHeader(i), RowOf(i) - 1)
    IN IF header = 0
       THEN [raised |-> "none", fields |-> fields]
       ELSE [raised |-> "none",
             fields |-> WithContexts(fields, [i \in labelled |-> Label(i)])]

\* Variant of ParsedFields parsing every table as single-axis.
ParsedFields_AlwaysSingle(fields) == parse_single_axis_table(fields)

\* What parse_tables does to one table
ParsedFields(fields) ==
    IF is_double_axis_table(fields)
    THEN parse_double_axis_table(fields)
    ELSE parse_single_axis_table(fields)

\* Variant of parse_tables giving every field a context key, empty where
\* the parser wrote no label.
parse_tables_ContextOnAll(data) ==
    [t \in DOMAIN data |->
        [data[t] EXCEPT !.fields =
            LET parsed == ParsedFields(data[t].fields).fields
            IN [i \in DOMAIN parsed |->
                   IF "context" \in DOMAIN parsed[i] THEN parsed[i]
                   ELSE [k \in DOMAIN parsed[i] \cup {"context"} |->
                            IF k = "context" THEN "" ELSE parsed[i][k]]]]]

\* The dict parse_tables returns (when it raises nothing): every table with
\* its fields list after the parse, nothing else touched
parse_tables(data) ==
    [t \in DOMAIN data |->
        [data[t] EXCEPT !.fields = ParsedFields(data[t].fields).fields]]

\* The exception parse_tables raises, "none" if none
parse_tables_raises(data) ==
    IF \E t \in DOMAIN data : ParsedFields(data[t].fields).raised # "none"
    THEN "ValueError"
    ELSE "none"

\* The caller's dict after parse_tables(): result = self.data.copy() copies
\* the dict of tables only, so every field["context"] = ... is written into
\* the field dicts the caller holds.  The tables are parsed in the order of
\* the dict; a table whose parse raises has had no context written (the
\* search over the empty column headers raises before the first write) and
\* the tables after it are not reached.
ArgumentAfterParse(data) ==
    LET Raises(t) == ParsedFields(data[t].fields).raised # "none"
    IN [t \in DOMAIN data |->
           IF \E u \in 1..t : Raises(u) THEN data[t]
           ELSE [data[t] EXCEPT !.fields = ParsedFields(data[t].fields).fields]]

\* process_tables(extracted_tables)
process_tables(tables) == parse_tables(tables)

\* process_document_json(json_data)
process_document_json(json_data) == parse_tables(json_data)

----------------------------------------------------------------------------
(* Inputs of the table parser *)

\* Longest list of fields of the table
MaxFields == 5

Field(id, type, text, box) ==
    [id |-> id, type |-> type, text |-> text, box |-> box, confidence |-> 1]

\* box string "x y 40 10" as its tokens
BoxAt(x, y) == <<ToString(x), ToString(y), "40", "10">>

\* Fields a licence table may hold: the headers State, Number and Expiration
\* on the row y = 10 (Expiration once left and once right of the threshold),
\* row labels "1." and "2.", empty cells on the rows 30, 50 and 70, and the
\* table's title.
TableFields ==
    { Field("f1", "field", "State", BoxAt(100, 10)),
      Field("f2", "field", "Number", BoxAt(300, 10)),
      Field("f3", "field", "Expiration", BoxAt(150, 10)),
      Field("f4", "field", "", BoxAt(110, 30)),
      Field("f5", "field", "1.", BoxAt(50, 32)),
      Field("f6", "field", "", BoxAt(290, 50)),
      Field("f7", "field", "", BoxAt(125, 70)),
      Field("f8", "field", "2.", BoxAt(50, 100)),
      Field("f9", "title", "Licenses", BoxAt(100, 0)),
      Field("f10", "field", "Expiration", BoxAt(350, 10)) }

\* the table entry the extractor builds, before its fields are appended
EmptyTable ==
    [table_id |-> "table_t1", box |-> BoxAt(200, 60), confidence |-> 1,
     fields |-> <<>>, parent_id |-> "s1"]

----------------------------------------------------------------------------
(* Specification of the table parser: the fields of one extracted table    *)
(* are collected, then process_tables runs on the dict of tables.          *)

InitTables ==
    /\ predictions = <<>>
    /\ pc = "extracted"
    /\ sections = <<>>
    /\ elem = NoDetection
    /\ cont = NoDetection
    /\ fn = "none"
    /\ contained = "none"
    /\ hierarchy = NoNode
    /\ transformed = NoNode
    /\ extracted_tables = <<EmptyTable>>
    /\ extracted_tables_output = <<>>
    /\ processed_tables = <<>>
    /\ raised = "none"
    /\ base_predictions = NoNode
    /\ merged_predictions = NoNode
    /\ doc_structure = <<>>
    /\ updated_structure = <<>>
    /\ structured_document = NoNode
    /\ final_structured_document = NoNode
    /\ cleaned_document = NoNode
    /\ steps = <<>>
    /\ workflow_predictions = <<>>
    /\ snippets = {}
    /\ predictions_json = [written |-> FALSE, content |-> <<>>]
    /\ main_predictions = [list |-> <<>>]
    /\ ocr_enriched_predictions = <<>>

\* table_entry['fields'].append(field_entry): one more field of the table,
\* not yet in it
ExtractField ==
    /\ pc = "extracted"
    /\ Len(extracted_tables[1].fields) < MaxFields
    /\ \E f \in TableFields :
          /\ \A k \in DOMAIN extracted_tables[1].fields :
                extracted_tables[1].fields[k].id # f.id
          /\ extracted_tables' =
                [extracted_tables EXCEPT ![1].fields = Append(@, f)]
    /\ UNCHANGED <<predictions, pc, sections, elem, cont, fn, contained>>
    /\ UNCHANGED <<outputVars, extracted_tables_output, processed_tables, raised>>
    /\ UNCHANGED <<mergeVars, updateVars, pipelineVars>>

\* json.dump(extracted_tables, f) into the file of the extracted tables,
\* then processed_tables = process_tables(extracted_tables), which writes
\* the contexts into the field dicts of extracted_tables too
ProcessTables ==
    /\ pc = "extracted"
    /\ extracted_tables_output' = extracted_tables
    /\ raised' = parse_tables_raises(extracted_tables)
    /\ processed_tables' =
          IF raised' = "none" THEN process_tables(extracted_tables) ELSE <<>>
    /\ extracted_tables' = ArgumentAfterParse(extracted_tables)
    /\ pc' = "processed"
    /\ UNCHANGED <<predictions, sections, elem, cont, fn, contained>>
    /\ UNCHANGED outputVars
    /\ UNCHANGED <<mergeVars, updateVars, pipelineVars>>

NextTables == ExtractField \/ ProcessTables

SpecTables == InitTables /\ [][NextTables]_vars

----------------------------------------------------------------------------
(* Claims about the table parser (specification SpecTables) *)

\* process_tables has returned
Processed == pc = "processed" /\ raised = "none"

\* the fields of table t before and after process_tables
ExtractedFields(t) == extracted_tables_output[t].fields

ProcessedFields(t) == processed_tables[t].fields

\* the context of a field, "" if it has none
ContextOf(f) == IF "context" \in DOMAIN f THEN f.context ELSE ""

\* the field with this id in a list (ids are distinct), and its position
HasField(fields, id) == \E i \in DOMAIN fields : fields[i].id = id

FieldById(fields, id) == fields[CHOOSE i \in DOMAIN fields : fields[i].id = id]

\* the ids of the fields of a list
FieldIds(fields) == {fields[i].id : i \in DOMAIN fields}

\* the output has the tables of the input, each with the entries of the
\* input but for its fields, and as many fields
SameTables ==
    /\ DOMAIN processed_tables = DOMAIN extracted_tables_output
    /\ \A t \in DOMAIN extracted_tables_output :
          /\ [processed_tables[t] EXCEPT !.fields = ExtractedFields(t)]
                = extracted_tables_output[t]
          /\ Len(ProcessedFields(t)) = Len(ExtractedFields(t))

\* C13 (as stated): after process_tables, every field whose text was empty
\* has its text replaced by the synthesized label, and the output otherwise
\* has the shape of the input (same tables, same fields, other texts kept).
\* Read in the claim's favour: only the fields a label was synthesized for
\* are required to have it as their text.
C13_EmptyTextReplaced ==
    Processed =>
        /\ SameTables
        /\ \A t \in DOMAIN extracted_tables_output :
              \A i \in DOMAIN ExtractedFields(t) :
                  IF /\ ExtractedFields(t)[i].text = ""
                     /\ ContextOf(ProcessedFields(t)[i]) # ""
                  THEN ProcessedFields(t)[i].text
                          = ContextOf(ProcessedFields(t)[i])
                  ELSE ProcessedFields(t)[i].text = ExtractedFields(t)[i].text

\* C13 (amended): after process_tables, every field keeps its text (an empty
\* text stays empty); a synthesized label is stored under the added key
\* context, which only fields of type field with an empty text receive; but
\* for that key the output equals the input.
C13_LabelUnderContextKey ==
    Processed =>
        /\ SameTables
        /\ \A t \in DOMAIN extracted_tables_output :
              \A i \in DOMAIN ExtractedFields(t) :
                  /\ DeleteKey(ProcessedFields(t)[i], "context")
                        = ExtractedFields(t)[i]
                  /\ "context" \in DOMAIN ProcessedFields(t)[i] =>
                        /\ ExtractedFields(t)[i].text = ""
                        /\ ExtractedFields(t)[i].type = "field"
                        /\ ProcessedFields(t)[i].context # ""

\* A processed table with a labelled field: its text is still empty.
C13_Witness ==
    /\ Processed
    /\ \E t \in DOMAIN processed_tables :
          \E i \in DOMAIN ProcessedFields(t) :
              /\ ContextOf(ProcessedFields(t)[i]) # ""
              /\ ProcessedFields(t)[i].text = ""
              /\ ExtractedFields(t)[i].text = ""

----------------------------------------------------------------------------
(* Specification of the table parser on the tables of Scenario C: the      *)
(* headers State, Number and Expiration on the row y = 10 at several x     *)
(* positions, and on the row y = 30 an empty field and perhaps a row label.*)

\* Longest list of fields of that table
MaxScenarioFields == 5

\* State left (x = 100) or right (x = 250) of the threshold, Number at
\* x = 300, Expiration left (x = 150) or right (x = 350), the row label "1."
\* left (x = 50) or right (x = 220), and the empty field at x = 110 or 260.
ScenarioFields ==
    { Field("c1", "field", "State", BoxAt(100, 10)),
      Field("c2", "field", "State", BoxAt(250, 10)),
      Field("c3", "field", "Number", BoxAt(300, 10)),
      Field("c4", "field", "Expiration", BoxAt(150, 10)),
      Field("c5", "field", "Expiration", BoxAt(350, 10)),
      Field("c6", "field", "1.", BoxAt(50, 30)),
      Field("c7", "field", "1.", BoxAt(220, 30)),
      Field("c8", "field", "", BoxAt(110, 30)),
      Field("c9", "field", "", BoxAt(260, 30)) }

\* table_entry['fields'].append(field_entry) for a field of that table
ExtractScenarioField ==
    /\ pc = "extracted"
    /\ Len(extracted_tables[1].fields) < MaxScenarioFields
    /\ \E f \in ScenarioFields :
          /\ \A k \in DOMAIN extracted_tables[1].fields :
                extracted_tables[1].fields[k].id # f.id
          /\ extracted_tables' =
                [extracted_tables EXCEPT ![1].fields = Append(@, f)]
    /\ UNCHANGED <<predictions, pc, sections, elem, cont, fn, contained>>
    /\ UNCHANGED <<outputVars, extracted_tables_output, processed_tables, raised>>
    /\ UNCHANGED <<mergeVars, updateVars, pipelineVars>>

NextScenarioC == ExtractScenarioField \/ ProcessTables

SpecScenarioC == InitTables /\ [][NextScenarioC]_vars

----------------------------------------------------------------------------
(* Claim about Scenario C (specification SpecScenarioC) *)

\* the positions of the fields with this text in a list of fields
FieldsWithText(fields, text) ==
    {i \in DOMAIN fields : fields[i].text = text}

\* Scenario C: the table holds one field State, one field Number and one
\* field Expiration on the row y = 10, at any x, one empty field on the row
\* y = 30 that is nearer in x to State than to the other two headers,
\* perhaps a row label "1." on the row y = 30, and nothing else.
ScenarioC ==
    /\ Processed
    /\ LET fields == ExtractedFields(1)
           headers ==
               {i \in DOMAIN fields :
                   fields[i].text \in {"State", "Number", "Expiration"}}
           labels == FieldsWithText(fields, "1.")
           empties == FieldsWithText(fields, "")
       IN /\ \A text \in {"State", "Number", "Expiration"} :
                Cardinality(FieldsWithText(fields, text)) = 1
          /\ Cardinality(empties) = 1
          /\ Cardinality(labels) <= 1
          /\ DOMAIN fields = headers \cup labels \cup empties
          /\ \A i \in headers : BoxY(fields[i]) = Num(10)
          /\ \A i \in labels \cup empties : BoxY(fields[i]) = Num(30)
          /\ \A e \in empties, i \in headers, st \in headers :
                (fields[st].text = "State" /\ fields[i].text # "State") =>
                    Abs(BoxX(fields[e]) - BoxX(fields[st]))
                        < Abs(BoxX(fields[e]) - BoxX(fields[i]))

\* the empty field of the table of Scenario C after process_tables
ScenarioEmptyField ==
    ProcessedFields(1)[CHOOSE i \in DOMAIN ExtractedFields(1) :
                           ExtractedFields(1)[i].text = ""]

\* the distinct texts of the table of Scenario C left of x = 200
ScenarioLeftTexts ==
    LET fields == ExtractedFields(1)
    IN {fields[i].text :
           i \in {k \in DOMAIN fields :
                     /\ fields[k].text # ""
                     /\ BoxX(fields[k]) < Num(LeftThreshold)}}

\* C14 (as stated): the table of Scenario C is classified single-header and
\* the label of the empty field is "State1", or "<row-label> - State" when
\* the data row has a row label.
C14_ScenarioCSingleHeader ==
    ScenarioC =>
        /\ ~is_double_axis_table(ExtractedFields(1))
        /\ ContextOf(ScenarioEmptyField) =
              IF FieldsWithText(ExtractedFields(1), "1.") # {}
              THEN "1. - State" ELSE "State1"

\* C14 (amended): the table of Scenario C is classified single-header
\* exactly when at most one distinct non-empty text of the table (headers
\* and row label) lies left of x = 200; the label of the empty field, stored
\* under the key context, is then "<row-label> - State" when the data row
\* has a row label left of x = 200 and "Row 1 - State" otherwise.  When two
\* or more distinct texts lie left of x = 200 the table is classified
\* two-axis, and the empty field receives "<row-label> State" when its row
\* has a row label left of x = 200 and no label otherwise.
C14_ScenarioCByLeftTexts ==
    ScenarioC =>
        LET fields == ExtractedFields(1)
            row_label == "1." \in ScenarioLeftTexts
        IN IF Cardinality(ScenarioLeftTexts) <= 1
           THEN /\ ~is_double_axis_table(fields)
                /\ "context" \in DOMAIN ScenarioEmptyField
                /\ ScenarioEmptyField.context =
                      IF row_label THEN "1. - State" ELSE "Row 1 - State"
                /\ ScenarioEmptyField.text = ""
           ELSE /\ is_double_axis_table(fields)
                /\ IF row_label
                   THEN /\ "context" \in DOMAIN ScenarioEmptyField
                        /\ ScenarioEmptyField.context = "1. State"
                   ELSE "context" \notin DOMAIN ScenarioEmptyField

\* Scenario C with the three headers right of x = 200 and the row label
\* "1." at x = 50, classified single-header: the empty field is labelled
\* "1. - State".
C14_Witness ==
    /\ ScenarioC
    /\ \A i \in DOMAIN ExtractedFields(1) :
          ExtractedFields(1)[i].text \in {"State", "Number", "Expiration"}
              => BoxX(ExtractedFields(1)[i]) >= Num(LeftThreshold)
    /\ ScenarioLeftTexts = {"1."}
    /\ ~is_double_axis_table(ExtractedFields(1))
    /\ ScenarioEmptyField.context = "1. - State"

----------------------------------------------------------------------------
(* Further claims about the table parser (specification SpecTables) *)

\* the fields of the header row of a list of fields: the fields (of type
\* field, with a box) on the topmost row that holds a text; rows are the
\* rows of the two-axis grouping
HeaderRowFields(fields) ==
    LET sorted_rows == DoubleRows(fields)
        header == DoubleHeaderRow(fields, sorted_rows)
    IN IF header = 0 THEN {}
       ELSE {sorted_rows[header].members[k] :
                k \in DOMAIN sorted_rows[header].members}

\* the fields with a text left of the threshold
LeftTextFields(fields) ==
    {i \in DOMAIN fields :
        /\ InRows(fields[i])
        /\ HasText(fields[i])
        /\ BoxX(fields[i]) < Num(LeftThreshold)}

\* C15 (as stated): a table is classified two-axis exactly when its header
\* row has a non-empty field and some field left of x = 200 outside the
\* header row has a non-empty text; texts that all lie in the header row
\* never make a table two-axis.
C15_TwoAxisByFirstColumn ==
    Processed =>
        LET fields == ExtractedFields(1)
        IN is_double_axis_table(fields) <=>
              /\ HeaderRowFields(fields) # {}
              /\ LeftTextFields(fields) \ HeaderRowFields(fields) # {}

\* C15 (amended): a table is classified two-axis exactly when two fields of
\* type field left of x = 200 hold different non-empty texts, whatever their
\* rows: two such fields of the header row suffice, and one row label below
\* a header row that lies right of x = 200 does not.
C15_TwoAxisByDistinctLeftTexts ==
    Processed =>
        LET fields == ExtractedFields(1)
        IN is_double_axis_table(fields) <=>
              \E i, j \in LeftTextFields(fields) :
                  fields[i].text # fields[j].text

\* A table classified two-axis whose texts all lie in the header row.
C15_Witness ==
    /\ Processed
    /\ is_double_axis_table(ExtractedFields(1))
    /\ \A i \in DOMAIN ExtractedFields(1) :
          /\ ExtractedFields(1)[i].type = "field"
          /\ HasText(ExtractedFields(1)[i]) =>
                i \in HeaderRowFields(ExtractedFields(1))
    /\ \E i \in DOMAIN ExtractedFields(1) : ExtractedFields(1)[i].text = ""

\* the row of a list of rows a field lies in
RowOfField(sorted_rows, i) ==
    sorted_rows[CHOOSE k \in DOMAIN sorted_rows :
        \E m \in DOMAIN sorted_rows[k].members :
            sorted_rows[k].members[m] = i]

\* the row headers (own or inherited) of a table parsed as two-axis
RowHeadersOf(fields) ==
    LET sorted_rows == DoubleRows(fields)
        header == DoubleHeaderRow(fields, sorted_rows)
    IN FilledRowHeaders(fields, sorted_rows, sorted_rows[header].row_y,
                        Len(sorted_rows))

\* among the fields heads, those whose x is nearest to the x of field i
NearestByX(fields, heads, i) ==
    {h \in heads :
        \A g \in heads :
            Abs(BoxX(fields[h]) - BoxX(fields[i]))
               <= Abs(BoxX(fields[g]) - BoxX(fields[i]))}

\* the header-row fields with a text
ColumnHeaderFields(fields) ==
    {h \in HeaderRowFields(fields) : HasText(fields[h])}

\* the empty fields outside the header row whose row has a row header
\* according to row_headers
CellsWithRowHeader(fields, sorted_rows, row_headers) ==
    {i \in DOMAIN fields :
        /\ InRows(fields[i])
        /\ fields[i].text = ""
        /\ i \notin HeaderRowFields(fields)
        /\ GetKey(row_headers, RowOfField(sorted_rows, i).row_y) # ""}

\* C16: in a table parsed as two-axis, every empty field of a non-header row
\* that has a row header (own or inherited) receives the label
\* "<RowHeader> <ColumnHeader>", ColumnHeader being the text of a header-row
\* field whose x is at minimum horizontal distance from the field's x.
C16_TwoAxisLabel ==
    (Processed /\ is_double_axis_table(ExtractedFields(1))) =>
        LET fields == ExtractedFields(1)
            sorted_rows == DoubleRows(fields)
            row_headers == RowHeadersOf(fields)
            heads == ColumnHeaderFields(fields)
        IN \A i \in CellsWithRowHeader(fields, sorted_rows, row_headers) :
               \E h \in NearestByX(fields, heads, i) :
                   ContextOf(ProcessedFields(1)[i]) =
                       GetKey(row_headers, RowOfField(sorted_rows, i).row_y)
                       \o " " \o fields[h].text

\* A two-axis table with two column headers and a labelled empty field whose
\* nearest column header is not the first field of the header row, in a row
\* that has no label of its own.
C16_Witness ==
    /\ Processed
    /\ is_double_axis_table(ExtractedFields(1))
    /\ LET fields == ExtractedFields(1)
           sorted_rows == DoubleRows(fields)
           heads == ColumnHeaderFields(fields)
       IN \E i \in CellsWithRowHeader(fields, sorted_rows, RowHeadersOf(fields)) :
             /\ ContextOf(ProcessedFields(1)[i]) # ""
             /\ LeftmostText(fields, RowOfField(sorted_rows, i).members) = ""
             /\ \E h \in heads :
                   /\ h \notin NearestByX(fields, heads, i)
                   /\ \A g \in NearestByX(fields, heads, i) : h < g

\* position in sorted_rows of the row a field lies in
RowPosition(sorted_rows, i) ==
    CHOOSE k \in DOMAIN sorted_rows :
        \E m \in DOMAIN sorted_rows[k].members :
            sorted_rows[k].members[m] = i

\* the fields with a text of the header row of a table parsed as
\* single-header
SingleColumnHeaderFields(fields, sorted_rows) ==
    LET header == SingleHeaderRow(fields, sorted_rows)
    IN IF header = 0 THEN {}
       ELSE {h \in {sorted_rows[header].members[m] :
                       m \in DOMAIN sorted_rows[header].members} :
                HasText(fields[h])}

\* the empty fields of the rows other than the header row, in a table
\* parsed as single-header that has a header row
SingleCells(fields, sorted_rows) ==
    LET header == SingleHeaderRow(fields, sorted_rows)
    IN IF header = 0 THEN {}
       ELSE {i \in DOMAIN fields :
                /\ InRows(fields[i])
                /\ fields[i].text = ""
                /\ RowPosition(sorted_rows, i) # header}

\* the numerals a row index may be written as
RowNumerals == {ToString(n) : n \in 0..(MaxFields + 1)}

\* C17 (as stated): in a table parsed as single-header, an empty field of a
\* data row receives "<ColumnHeader><RowIndex>" (nearest column header, then
\* a row index, whatever it counts from) when its row has no row label, and
\* "<RowLabel> - <ColumnHeader>" when it has one.
C17_HeaderThenRowIndex ==
    (Processed /\ ~is_double_axis_table(ExtractedFields(1))) =>
        LET fields == ExtractedFields(1)
            sorted_rows == SingleRows(fields)
            heads == SingleColumnHeaderFields(fields, sorted_rows)
        IN \A i \in SingleCells(fields, sorted_rows) :
               LET row_label ==
                       LeftmostText(fields, RowOfField(sorted_rows, i).members)
               IN \E h \in NearestByX(fields, heads, i) :
                      IF row_label = ""
                      THEN \E n \in RowNumerals :
                              ContextOf(ProcessedFields(1)[i])
                                 = fields[h].text \o n
                      ELSE ContextOf(ProcessedFields(1)[i])
                              = row_label \o " - " \o fields[h].text

\* C17 (amended): in a table parsed as single-header, an empty field of a
\* row other than the header row receives "Row <RowIndex> - <ColumnHeader>"
\* when its row has no row label, RowIndex being the position of the row
\* among all rows of the table sorted by y, counted from 0 with the header
\* row included, and "<RowLabel> - <ColumnHeader>" when it has one;
\* ColumnHeader is the text of a header-row field at minimum horizontal
\* distance.
C17_RowIndexThenHeader ==
    (Processed /\ ~is_double_axis_table(ExtractedFields(1))) =>
        LET fields == ExtractedFields(1)
            sorted_rows == SingleRows(fields)
            heads == SingleColumnHeaderFields(fields, sorted_rows)
        IN \A i \in SingleCells(fields, sorted_rows) :
               LET row_label ==
                       LeftmostText(fields, RowOfField(sorted_rows, i).members)
               IN \E h \in NearestByX(fields, heads, i) :
                      ContextOf(ProcessedFields(1)[i]) =
                         IF row_label = ""
                         THEN "Row "
                              \o ToString(RowPosition(sorted_rows, i) - 1)
                              \o " - " \o fields[h].text
                         ELSE row_label \o " - " \o fields[h].text

\* A single-header table with a header row of two texts and, two rows below
\* it, an empty field without row label, labelled with the row index 2.
C17_Witness ==
    /\ Processed
    /\ ~is_double_axis_table(ExtractedFields(1))
    /\ LET fields == ExtractedFields(1)
           sorted_rows == SingleRows(fields)
       IN /\ Cardinality(SingleColumnHeaderFields(fields, sorted_rows)) = 2
          /\ \E i \in SingleCells(fields, sorted_rows) :
                /\ RowPosition(sorted_rows, i) = 3
                /\ LeftmostText(fields, sorted_rows[3].members) = ""
                /\ ProcessedFields(1)[i].context = "Row 2 - Number"

\* first-column texts that are a number followed by a period, and the
\* number each of them spells
NumberedLabels == {"1.", "2."}

RowNumberOf(label) == IF label = "1." THEN "1" ELSE "2"

\* the rows and the header row as the parser of the table's class sees
\* them
ClassRows(fields) ==
    IF is_double_axis_table(fields) THEN DoubleRows(fields)
    ELSE SingleRows(fields)

ClassHeaderRow(fields) ==
    IF is_double_axis_table(fields)
    THEN DoubleHeaderRow(fields, DoubleRows(fields))
    ELSE SingleHeaderRow(fields, SingleRows(fields))

\* a table with a header row of column headers and at least one data row,
\* whose data rows all have a numbered first-column text
NumberedRowsTable(fields) ==
    LET sorted_rows == ClassRows(fields)
        header == ClassHeaderRow(fields)
    IN /\ header = 1
       /\ Len(sorted_rows) > 1
       /\ \A m \in DOMAIN sorted_rows[1].members :
             fields[sorted_rows[1].members[m]].text \notin NumberedLabels
       /\ \A k \in 2..Len(sorted_rows) :
             LeftmostText(fields, sorted_rows[k].members) \in NumberedLabels

\* the empty fields of the data rows and the header-row fields with a text
NumberedCells(fields) ==
    {i \in DOMAIN fields :
        /\ InRows(fields[i])
        /\ fields[i].text = ""
        /\ RowPosition(ClassRows(fields), i) # 1}

NumberedHeads(fields) ==
    {h \in DOMAIN fields :
        /\ InRows(fields[h])
        /\ HasText(fields[h])
        /\ RowPosition(ClassRows(fields), h) = 1}

\* C18 (as stated): in a table whose data rows all have a first-column text
\* that is a number followed by a period (a numbered-rows table), each empty
\* field receives the label "<ColumnHeader><RowNumber>".
C18_NumberedRowsLabel ==
    (Processed /\ NumberedRowsTable(ExtractedFields(1))) =>
        LET fields == ExtractedFields(1)
            sorted_rows == ClassRows(fields)
        IN \A i \in NumberedCells(fields) :
               \E h \in NearestByX(fields, NumberedHeads(fields), i) :
                   ContextOf(ProcessedFields(1)[i]) =
                       fields[h].text
                       \o RowNumberOf(LeftmostText(fields,
                              RowOfField(sorted_rows, i).members))

\* C18 (amended): the parser has no numbered-rows class.  A table whose data
\* rows all have a numbered first-column text is classified two-axis when
\* two different texts lie left of x = 200 and single-header otherwise; each
\* empty field of a data row receives "<RowText> <ColumnHeader>" in the
\* first case and "<RowText> - <ColumnHeader>" in the second, RowText being
\* the first-column text of its row as written (period included).
C18_NumberedRowsAsRowLabels ==
    (Processed /\ NumberedRowsTable(ExtractedFields(1))) =>
        LET fields == ExtractedFields(1)
            sorted_rows == ClassRows(fields)
        IN \A i \in NumberedCells(fields) :
               \E h \in NearestByX(fields, NumberedHeads(fields), i) :
                   ContextOf(ProcessedFields(1)[i]) =
                       LeftmostText(fields, RowOfField(sorted_rows, i).members)
                       \o (IF is_double_axis_table(fields) THEN " " ELSE " - ")
                       \o fields[h].text

\* A numbered-rows table classified two-axis whose empty field on the row of
\* "1." is labelled "1. State".
C18_Witness ==
    /\ Processed
    /\ NumberedRowsTable(ExtractedFields(1))
    /\ is_double_axis_table(ExtractedFields(1))
    /\ \E i \in NumberedCells(ExtractedFields(1)) :
          ProcessedFields(1)[i].context = "1. State"

\* the rows of a two-axis table that have a row header of their own: the
\* rows other than the header row holding a text left of the threshold
ExplicitRows(fields, sorted_rows) ==
    {k \in DOMAIN sorted_rows :
        /\ k # DoubleHeaderRow(fields, sorted_rows)
        /\ LeftmostText(fields, sorted_rows[k].members) # ""}

\* among the rows ks, those at minimum y-distance from row k
NearestRows(sorted_rows, ks, k) ==
    {e \in ks :
        \A g \in ks :
            Abs(sorted_rows[e].row_y - sorted_rows[k].row_y)
               <= Abs(sorted_rows[g].row_y - sorted_rows[k].row_y)}

\* C19: in a two-axis table, a row without row header of its own inherits
\* the header of a row at minimum y-distance among the rows that have an
\* explicit row header (never that of a row that only inherited one): its
\* empty fields are labelled with that header.
C19_InheritFromNearestExplicitRow ==
    (Processed /\ is_double_axis_table(ExtractedFields(1))) =>
        LET fields == ExtractedFields(1)
            sorted_rows == DoubleRows(fields)
            explicit == ExplicitRows(fields, sorted_rows)
            heads == ColumnHeaderFields(fields)
        IN \A i \in DOMAIN fields :
               LET k == RowPosition(sorted_rows, i)
               IN (/\ InRows(fields[i])
                   /\ fields[i].text = ""
                   /\ k # DoubleHeaderRow(fields, sorted_rows)
                   /\ k \notin explicit
                   /\ explicit # {}) =>
                      \E e \in NearestRows(sorted_rows, explicit, k) :
                          \E h \in NearestByX(fields, heads, i) :
                              ContextOf(ProcessedFields(1)[i]) =
                                  LeftmostText(fields, sorted_rows[e].members)
                                  \o " " \o fields[h].text

\* no row of the table holds a non-empty field
NoTextInRows(fields) ==
    \A i \in DOMAIN fields : InRows(fields[i]) => fields[i].text = ""

\* C20: process_tables raises no exception (the nearest-column-header search
\* never runs over an empty set of column headers), and when no row of a
\* table holds a non-empty field the table comes back as it was: no label
\* added, the empty fields still empty.
C20_NoHeaderNoLabelNoException ==
    pc = "processed" =>
        /\ raised = "none"
        /\ \A t \in DOMAIN extracted_tables_output :
              NoTextInRows(ExtractedFields(t)) =>
                  processed_tables[t] = extracted_tables_output[t]

\* A processed table of empty fields on two rows at least (and perhaps the
\* title), without any label.
C20_Witness ==
    /\ Processed
    /\ NoTextInRows(ExtractedFields(1))
    /\ Len(SingleRows(ExtractedFields(1))) >= 2
    /\ \A i \in DOMAIN ProcessedFields(1) :
          "context" \notin DOMAIN ProcessedFields(1)[i]

----------------------------------------------------------------------------
(* Specification of the row grouping: the table parser on a table whose    *)
(* fields lie on close rows (y = 30, 32, 33, 36, and 7.5, 12.5 half-way    *)
(* between two multiples of 5) and whose upper row holds a single text.    *)

\* Longest list of fields of that table
MaxRowFields == 4

\* Fields of a table with the header Number alone on the row y = 10, the
\* headers State and Expiration on the rows 30 and 32, empty cells on the
\* rows 10, 33, 36 and 60, the row label "1." on the row 60, and the row
\* label "2." at y = 7.5 with an empty cell at y = 12.5.
RowFields ==
    { Field("r1", "field", "Number", BoxAt(300, 10)),
      Field("r2", "field", "", BoxAt(110, 10)),
      Field("r3", "field", "State", BoxAt(100, 30)),
      Field("r4", "field", "Expiration", BoxAt(350, 32)),
      Field("r5", "field", "", BoxAt(290, 33)),
      Field("r6", "field", "", BoxAt(125, 36)),
      Field("r7", "field", "1.", BoxAt(50, 60)),
      Field("r8", "field", "", BoxAt(300, 60)),
      Field("r9", "field", "2.", <<"50", "7.5", "40", "10">>),
      Field("r10", "field", "", <<"110", "12.5", "40", "10">>) }

\* table_entry['fields'].append(field_entry) for a field of that table
ExtractRowField ==
    /\ pc = "extracted"
    /\ Len(extracted_tables[1].fields) < MaxRowFields
    /\ \E f \in RowFields :
          /\ \A k \in DOMAIN extracted_tables[1].fields :
                extracted_tables[1].fields[k].id # f.id
          /\ extracted_tables' =
                [extracted_tables EXCEPT ![1].fields = Append(@, f)]
    /\ UNCHANGED <<predictions, pc, sections, elem, cont, fn, contained>>
    /\ UNCHANGED <<outputVars, extracted_tables_output, processed_tables, raised>>
    /\ UNCHANGED <<mergeVars, updateVars, pipelineVars>>

NextRows == ExtractRowField \/ ProcessTables

SpecRows == InitTables /\ [][NextRows]_vars

----------------------------------------------------------------------------
(* Claims about the rows and the header row (specification SpecRows) *)

\* the rows the parser in charge of a table groups its fields into
RowsOf(fields) ==
    IF is_double_axis_table(fields) THEN DoubleRows(fields)
    ELSE SingleRows(fields)

\* the position of the header row that parser chooses, 0 if none
HeaderOf(fields) ==
    IF is_double_axis_table(fields)
    THEN DoubleHeaderRow(fields, DoubleRows(fields))
    ELSE SingleHeaderRow(fields, SingleRows(fields))

\* the rows holding more than one text
SeveralTextRows(fields, sorted_rows) ==
    {k \in DOMAIN sorted_rows :
        Cardinality({m \in DOMAIN sorted_rows[k].members :
                        fields[sorted_rows[k].members[m]].text # ""}) > 1}

\* C21 as stated: in both parsers the header row is the topmost row holding
\* a non-empty field; no row holding a non-empty field lies above it.
C21_HeaderIsTopmostTextRow ==
    pc = "processed" =>
        LET fields == ExtractedFields(1)
            sorted_rows == RowsOf(fields)
            header == HeaderOf(fields)
        IN \A k \in DOMAIN sorted_rows :
               RowHasText(fields, sorted_rows[k]) =>
                   /\ header # 0
                   /\ RowHasText(fields, sorted_rows[header])
                   /\ header <= k

\* C21: in the two-axis parser the header row is the topmost row holding a
\* non-empty field; in the single-header parser it is the topmost row
\* holding more than one non-empty field and, only when no row holds more
\* than one, the topmost row holding a non-empty field.  A table without
\* non-empty field has no header row.
C21_HeaderIsTopmostOfItsKind ==
    pc = "processed" =>
        LET fields == ExtractedFields(1)
            sorted_rows == RowsOf(fields)
            header == HeaderOf(fields)
            several == SeveralTextRows(fields, sorted_rows)
            texts == {k \in DOMAIN sorted_rows :
                         RowHasText(fields, sorted_rows[k])}
            eligible == IF is_double_axis_table(fields) \/ several = {}
                        THEN texts ELSE several
        IN IF eligible = {} THEN header = 0
           ELSE header \in eligible /\ \A k \in eligible : header <= k

\* A processed single-header table whose header row (two texts) lies below
\* a row holding one text.
C21_Witness ==
    /\ Processed
    /\ ~is_double_axis_table(ExtractedFields(1))
    /\ LET fields == ExtractedFields(1)
           sorted_rows == SingleRows(fields)
           header == SingleHeaderRow(fields, sorted_rows)
       IN /\ header > 1
          /\ \E k \in 1..(header - 1) : RowHasText(fields, sorted_rows[k])
          /\ header \in SeveralTextRows(fields, sorted_rows)

\* the positions in sorted_rows of the rows that hold field i
RowsHolding(sorted_rows, i) ==
    {k \in DOMAIN sorted_rows :
        \E m \in DOMAIN sorted_rows[k].members : sorted_rows[k].members[m] = i}

\* the fields i and j lie in one row
SameRow(sorted_rows, i, j) ==
    RowsHolding(sorted_rows, i) \cap RowsHolding(sorted_rows, j) # {}

\* every field of type field with a box of four tokens is once in one row,
\* no other field is in a row
EachFieldInOneRow(fields, sorted_rows) ==
    /\ \A i \in DOMAIN fields :
          Cardinality(RowsHolding(sorted_rows, i)) =
              IF InRows(fields[i]) THEN 1 ELSE 0
    /\ \A k \in DOMAIN sorted_rows :
          \A m, n \in DOMAIN sorted_rows[k].members :
              sorted_rows[k].members[m] = sorted_rows[k].members[n] => m = n

\* C25 as stated: whatever the parser and the order of the fields, two
\* fields whose y differ by less than 5 lie in the same row, and every field
\* of type field with a well-formed box lies in exactly one row.
C25_CloseFieldsShareRow ==
    pc = "processed" =>
        LET fields == ExtractedFields(1)
            sorted_rows == RowsOf(fields)
        IN /\ EachFieldInOneRow(fields, sorted_rows)
           /\ \A i, j \in DOMAIN fields :
                 (/\ InRows(fields[i]) /\ InRows(fields[j])
                  /\ Abs(BoxY(fields[i]) - BoxY(fields[j]))
                        < Num(RowTolerance))
                     => SameRow(sorted_rows, i, j)

\* C25: every field of type field with a well-formed box lies in exactly one
\* row and two fields of equal y lie in the same row.  In the two-axis
\* parser the key of a row is a multiple of 5 and every field of the row
\* is at most 2.5 from it (a y half-way between two multiples goes to the
\* even one), so two fields of a row differ by at most 5; in the
\* single-header parser a row is keyed by the y of the first field put into
\* it and every field of the row is less than 5 from that key, so two
\* fields of a row differ by less than 10.  Two fields whose y differ by
\* less than 5 need not share a row.
C25_RowsAroundTheirKey ==
    pc = "processed" =>
        LET fields == ExtractedFields(1)
            sorted_rows == RowsOf(fields)
            double == is_double_axis_table(fields)
        IN /\ EachFieldInOneRow(fields, sorted_rows)
           /\ \A i, j \in DOMAIN fields :
                 (/\ InRows(fields[i]) /\ InRows(fields[j])
                  /\ BoxY(fields[i]) = BoxY(fields[j]))
                     => SameRow(sorted_rows, i, j)
           /\ \A k \in DOMAIN sorted_rows :
                 LET row == sorted_rows[k]
                     ys == {BoxY(fields[row.members[m]]) :
                               m \in DOMAIN row.members}
                 IN /\ row.members # <<>>
                    /\ double =>
                          /\ row.row_y % Num(RowGrid) = 0
                          /\ \A y \in ys :
                                2 * Abs(y - row.row_y) <= Num(RowGrid)
                          /\ \A y, z \in ys : Abs(y - z) <= Num(RowGrid)
                    /\ ~double =>
                          /\ row.row_y = BoxY(fields[row.members[1]])
                          /\ \A y \in ys :
                                Abs(y - row.row_y) < Num(RowTolerance)
                          /\ \A y, z \in ys :
                                Abs(y - z) < 2 * Num(RowTolerance)

\* A processed two-axis table with two fields exactly 5 apart (y = 7.5 and
\* y = 12.5) sharing a row and two fields whose y differ by less than 5
\* lying in different rows.
C25_Witness ==
    /\ Processed
    /\ is_double_axis_table(ExtractedFields(1))
    /\ LET fields == ExtractedFields(1)
           sorted_rows == RowsOf(fields)
       IN /\ \E i, j \in DOMAIN fields :
                /\ InRows(fields[i]) /\ InRows(fields[j])
                /\ Abs(BoxY(fields[i]) - BoxY(fields[j])) = Num(RowGrid)
                /\ SameRow(sorted_rows, i, j)
          /\ \E j, k \in DOMAIN fields :
                /\ InRows(fields[j]) /\ InRows(fields[k])
                /\ Abs(BoxY(fields[j]) - BoxY(fields[k])) < Num(RowTolerance)
                /\ ~SameRow(sorted_rows, j, k)

\* C28: in single-header parsing only empty fields of rows below the header
\* row receive a label: no field of the header row and no field of a row
\* above the header row is given a context.
C28_OnlyBelowHeaderLabelled ==
    (Processed /\ ~is_double_axis_table(ExtractedFields(1))) =>
        LET fields == ExtractedFields(1)
            sorted_rows == SingleRows(fields)
            header == SingleHeaderRow(fields, sorted_rows)
        IN \A i \in DOMAIN fields :
               "context" \in DOMAIN ProcessedFields(1)[i] =>
                   /\ fields[i].text = ""
                   /\ InRows(fields[i])
                   /\ header # 0
                   /\ RowPosition(sorted_rows, i) > header

----------------------------------------------------------------------------
(* The frame of parse_tables (specification SpecTables) *)

\* C29: parse_tables changes nothing but the context key of fields whose
\* text is empty: the output has the table ids of the input, every table
\* keeps its other entries and its fields in the same order with id, type,
\* text, box and confidence unchanged, no field with a text receives a
\* context, and a second run on the output raises nothing and returns the
\* output unchanged.  The dict handed in shares its field dicts with the
\* output, so after the call it too differs from the tables as extracted
\* by those context keys only.
C29_OnlyContextOfEmptyFields ==
    Processed =>
        /\ extracted_tables = processed_tables
        /\ DOMAIN processed_tables = DOMAIN extracted_tables_output
        /\ \A t \in DOMAIN extracted_tables_output :
              /\ DeleteKey(processed_tables[t], "fields")
                    = DeleteKey(extracted_tables_output[t], "fields")
              /\ DOMAIN ProcessedFields(t) = DOMAIN ExtractedFields(t)
              /\ \A i \in DOMAIN ExtractedFields(t) :
                    LET before == ExtractedFields(t)[i]
                        after == ProcessedFields(t)[i]
                    IN /\ DOMAIN after \subseteq DOMAIN before \cup {"context"}
                       /\ \A k \in DOMAIN before : after[k] = before[k]
                       /\ before.text # "" => DOMAIN after = DOMAIN before
        /\ parse_tables_raises(processed_tables) = "none"
        /\ process_tables(processed_tables) = processed_tables

\* A processed table where an empty field received a context and a field
\* with a text did not, and that a second run leaves as it is.
C29_Witness ==
    /\ Processed
    /\ \E i, j \in DOMAIN ProcessedFields(1) :
          /\ ExtractedFields(1)[i].text = ""
          /\ "context" \in DOMAIN ProcessedFields(1)[i]
          /\ ProcessedFields(1)[i].context # ""
          /\ ExtractedFields(1)[j].text # ""
          /\ ProcessedFields(1)[j] = ExtractedFields(1)[j]
    /\ process_tables(processed_tables) = processed_tables

----------------------------------------------------------------------------
(* Tables before sections (specification Spec) *)

\* the ids of the fields and checkbox contexts listed in a table entry
TableEntryIds(t) ==
    {t.fields[k].detection_id : k \in DOMAIN t.fields}
        \cup {t.checkbox_contexts[k].detection_id :
                 k \in DOMAIN t.checkbox_contexts}

\* the ids some table of the first pass lists, whether or not the table ends
\* up in a section
IdsInTables(preds) ==
    LET sorted == SortedByY(preds)
        tables == TablesPass(preds, sorted, Len(sorted))
    IN UNION {TableEntryIds(tables[k]) : k \in DOMAIN tables}

\* the ids of the direct fields and checkbox contexts of a section entry
DirectIds(s) ==
    {s.fields[k].detection_id : k \in DOMAIN s.fields}
        \cup {s.checkbox_contexts[k].detection_id :
                 k \in DOMAIN s.checkbox_contexts}

\* C30: in the output of _build_hierarchy no field or checkbox_context
\* assigned to a table is among the direct fields or checkbox_contexts of
\* a section, whatever the order of the detections: neither an id of
\* assigned_to_tables, nor an id listed by a table of the first pass, nor an
\* id listed by a table nested in a section.
C30_TableMembersNotInSections ==
    pc = "done" =>
        LET sorted == SortedByY(predictions)
            assigned == AssignedToTables(predictions, sorted)
                           \cup IdsInTables(predictions)
        IN \A i \in DOMAIN sections :
              /\ DirectIds(sections[i]) \cap assigned = {}
              /\ \A j \in DOMAIN sections :
                    \A k \in DOMAIN sections[j].tables :
                        TableEntryIds(sections[j].tables[k])
                            \cap DirectIds(sections[i]) = {}

\* A section with a table nested in it, the table listing a field that lies
\* within the section as well and that the section does not list; the
\* section is not the last detection of the input.
C30_Witness ==
    /\ pc = "done"
    /\ \E i \in DOMAIN sections :
          \E k \in DOMAIN sections[i].tables :
              \E f \in DOMAIN predictions :
                  /\ predictions[f].class = "field"
                  /\ predictions[f].detection_id
                        \in TableEntryIds(sections[i].tables[k])
                  /\ predictions[f].detection_id # sections[i].detection_id
                  /\ Within(predictions[f],
                            ElementsMap(predictions, sections[i].detection_id))
                  /\ predictions[f].detection_id \notin DirectIds(sections[i])
                  /\ predictions[1].class = "section"

----------------------------------------------------------------------------
(* extract_tables_from_document_structure  (src/src/table_extractor.py)    *)
(* merge_table_results_with_ocr  (src/src/table_parser.py)                 *)
(*                                                                         *)
(* A node of the document tree is a dict with some of the keys type, id,   *)
(* text, box, confidence and children, modelled as a function from its     *)
(* keys; the box string is its token list, as in the table parser.  The    *)
(* dict of extracted tables is the ordered list of its entries, each       *)
(* holding its key as table_id.                                            *)

\* d.get(key, default)
Get(d, key, default) == IF key \in DOMAIN d THEN d[key] ELSE default

\* all_tables[table_id] = entry
PutTable(all_tables, entry) ==
    IF \E k \in DOMAIN all_tables : all_tables[k].table_id = entry.table_id
    THEN [k \in DOMAIN all_tables |->
             IF all_tables[k].table_id = entry.table_id THEN entry
             ELSE all_tables[k]]
    ELSE Append(all_tables, entry)

\* the types of the children of a table that are extracted
ExtractedTypes == {"field", "title"}

\* the entry appended to the fields of a table for one of its children
FieldEntry(field) ==
    [id |-> Get(field, "id", ""),
     type |-> Get(field, "type", ""),
     text |-> Get(field, "text", ""),
     box |-> Get(field, "box", <<>>),
     confidence |-> Get(field, "confidence", 0)]

\* Variant of ExtractedEntry taking the children of type field and
\* checkbox_context.
ExtractedEntry_FieldsAndContexts(all_tables, section, child) ==
    LET children == Get(child, "children", <<>>)
        kept == SelectSeq(children, LAMBDA f :
                    Get(f, "type", "") \in {"field", "checkbox_context"})
    IN [table_id |-> Get(child, "id",
                         "table_" \o ToString(Len(all_tables))),
        box |-> Get(child, "box", <<>>),
        confidence |-> Get(child, "confidence", 0),
        fields |-> [k \in DOMAIN kept |-> FieldEntry(kept[k])],
        parent_id |-> Get(section, "id", "")]

\* all_tables[table_id] once the children of the table are gone through
ExtractedEntry(all_tables, section, child) ==
    LET children == Get(child, "children", <<>>)
        kept == SelectSeq(children,
                          LAMBDA f : Get(f, "type", "") \in ExtractedTypes)
    IN [table_id |-> Get(child, "id",
                         "table_" \o ToString(Len(all_tables))),
        box |-> Get(child, "box", <<>>),
        confidence |-> Get(child, "confidence", 0),
        fields |-> [k \in DOMAIN kept |-> FieldEntry(kept[k])],
        parent_id |-> Get(section, "id", "")]

\* all_tables after the first n children of a section
RECURSIVE SectionTablesPass(_, _, _)
SectionTablesPass(all_tables, section, n) ==
    IF n = 0 THEN all_tables
    ELSE LET prev == SectionTablesPass(all_tables, section, n - 1)
             child == section.children[n]
         IN IF Get(child, "type", "") = "table"
            THEN PutTable(prev, ExtractedEntry(prev, section, child))
            ELSE prev

\* all_tables after the first n children of the document
RECURSIVE DocumentTablesPass(_, _)
DocumentTablesPass(document_structure, n) ==
    IF n = 0 THEN <<>>
    ELSE LET prev == DocumentTablesPass(document_structure, n - 1)
             section == document_structure.children[n]
         IN IF /\ Get(section, "type", "") = "section"
               /\ "children" \in DOMAIN section
            THEN SectionTablesPass(prev, section, Len(section.children))
            ELSE prev

\* extract_tables_from_document_structure(document_structure)
extract_tables_from_document_structure(document_structure) ==
    IF "children" \notin DOMAIN document_structure THEN <<>>
    ELSE DocumentTablesPass(document_structure,
                            Len(document_structure.children))

\* table_id in table_mapping
InMapping(tables, table_id) ==
    \E k \in DOMAIN tables : tables[k].table_id = table_id

\* table_mapping[table_id]
Mapped(tables, table_id) ==
    tables[CHOOSE k \in DOMAIN tables : tables[k].table_id = table_id]

\* f.get("id") == processed_field.get("id"): both hold the same id, or
\* neither holds the key id (None on both sides); a missing id is not the
\* id ""
SameIdKey(f, processed_field) ==
    /\ ("id" \in DOMAIN f) <=> ("id" \in DOMAIN processed_field)
    /\ "id" \in DOMAIN f => f.id = processed_field.id

\* field_mapping[field_id] for field_id = processed_field.get("id"): the
\* last child of type field under that key; [type |-> "none"] when
\* field_id is not in field_mapping
FieldMapping(children, processed_field) ==
    LET hits == {k \in DOMAIN children :
                    /\ Get(children[k], "type", "") = "field"
                    /\ SameIdKey(children[k], processed_field)}
    IN IF hits = {} THEN [type |-> "none"]
       ELSE children[CHOOSE k \in hits : \A j \in hits : j <= k]

\* new_children of a table: the processed fields, each over the original
\* field of the same id if there is one, then the original children that
\* are not of type field
NewChildren(child, processed_table) ==
    LET children == Get(child, "children", <<>>)
        fields == processed_table.fields
    IN [k \in DOMAIN fields |->
           LET original == FieldMapping(children, fields[k])
           IN IF original.type # "none" THEN fields[k] @@ original
              ELSE fields[k]]
       \o SelectSeq(children, LAMBDA c : Get(c, "type", "") # "field")

\* dict[key] = value on a dict as a function of its keys
SetKey(d, key, value) ==
    [k \in DOMAIN d \cup {key} |-> IF k = key THEN value ELSE d[k]]

\* the children list after update_tables_in_children(children)
RECURSIVE update_tables_in_children(_, _)
update_tables_in_children(children, tables) ==
    [i \in DOMAIN children |->
        LET child == children[i]
            replaced ==
                IF /\ Get(child, "type", "") = "table"
                   /\ "id" \in DOMAIN child
                   /\ InMapping(tables, child.id)
                THEN LET processed_table == Mapped(tables, child.id)
                         with_children ==
                             SetKey(child, "children",
                                    NewChildren(child, processed_table))
                     IN IF "metadata" \in DOMAIN processed_table
                        THEN SetKey(with_children, "metadata",
                                    processed_table.metadata)
                        ELSE with_children
                ELSE child
        IN IF "children" \in DOMAIN replaced
           THEN [replaced EXCEPT !.children =
                    update_tables_in_children(@, tables)]
           ELSE replaced]

\* merge_table_results_with_ocr(base_predictions, processed_tables): the
\* tree returned; the argument is deep-copied first and stays as it was
merge_table_results_with_ocr(base, tables) ==
    IF "children" \in DOMAIN base
    THEN [base EXCEPT !.children = update_tables_in_children(@, tables)]
    ELSE base

----------------------------------------------------------------------------
(* Specification of the table round trip: a document tree is assembled     *)
(* node by node, its tables are extracted, processed and merged back (the  *)
(* steps of table_extractor.py and run_table_parser.py run as scripts).    *)

\* Most nodes of a document tree, root included
MaxDocNodes == 5

\* Nodes a document tree may hold, before they are given an id: a section,
\* a table, a header field, an empty field below it, a title and a
\* checkbox context.
DocumentNodes ==
    { [type |-> "section", box |-> BoxAt(200, 100), confidence |-> 1],
      [type |-> "table", box |-> BoxAt(200, 60), confidence |-> 1],
      [type |-> "field", text |-> "State", box |-> BoxAt(100, 10),
       confidence |-> 1],
      [type |-> "field", text |-> "", box |-> BoxAt(110, 30),
       confidence |-> 1],
      [type |-> "title", text |-> "Licenses", box |-> BoxAt(100, 0),
       confidence |-> 1],
      [type |-> "checkbox_context", text |-> "Active", box |-> BoxAt(300, 50),
       confidence |-> 1] }

\* The id of the node at a path: "n" and the child indices down to it
RECURSIVE IdAt(_)
IdAt(path) ==
    IF path = <<>> THEN "n"
    ELSE IdAt(SubSeq(path, 1, Len(path) - 1)) \o ToString(path[Len(path)])

\* The types a node of a given type may hold as children
ChildTypes(type) ==
    CASE type \in {"document", "section"} ->
             {"section", "table", "field", "title", "checkbox_context"}
      [] type = "table" -> {"field", "title", "checkbox_context"}
      [] OTHER -> {}

InitMerge ==
    /\ predictions = <<>>
    /\ pc = "document"
    /\ sections = <<>>
    /\ elem = NoDetection
    /\ cont = NoDetection
    /\ fn = "none"
    /\ contained = "none"
    /\ hierarchy = NoNode
    /\ transformed = NoNode
    /\ extracted_tables = <<>>
    /\ extracted_tables_output = <<>>
    /\ processed_tables = <<>>
    /\ raised = "none"
    /\ base_predictions = RootNode
    /\ merged_predictions = NoNode
    /\ doc_structure = <<>>
    /\ updated_structure = <<>>
    /\ structured_document = NoNode
    /\ final_structured_document = NoNode
    /\ cleaned_document = NoNode
    /\ steps = <<>>
    /\ workflow_predictions = <<>>
    /\ snippets = {}
    /\ predictions_json = [written |-> FALSE, content |-> <<>>]
    /\ main_predictions = [list |-> <<>>]
    /\ ocr_enriched_predictions = <<>>

\* One more node in the document tree, as the last child of a node that
\* may hold it
AddDocumentNode ==
    /\ pc = "document"
    /\ Cardinality(TreePaths(base_predictions)) < MaxDocNodes
    /\ \E path \in TreePaths(base_predictions), node \in DocumentNodes :
          LET parent == SubTree(base_predictions, path)
              place == Len(Get(parent, "children", <<>>)) + 1
          IN /\ node.type \in ChildTypes(parent.type)
             /\ base_predictions' =
                   AppendChild(base_predictions, path,
                               SetKey(node, "id", IdAt(Append(path, place))))
    /\ UNCHANGED <<predictions, pc, sections, elem, cont, fn, contained>>
    /\ UNCHANGED <<outputVars, parserVars, merged_predictions>>
    /\ UNCHANGED <<updateVars, pipelineVars>>

\* tables = extract_tables_from_document_structure(document_data), saved to
\* the file of the extracted tables
ExtractTables ==
    /\ pc = "document"
    /\ extracted_tables' =
          extract_tables_from_document_structure(base_predictions)
    /\ extracted_tables_output' = extracted_tables'
    /\ pc' = "extracted"
    /\ UNCHANGED <<predictions, sections, elem, cont, fn, contained>>
    /\ UNCHANGED <<outputVars, processed_tables, raised, mergeVars>>
    /\ UNCHANGED <<updateVars, pipelineVars>>

\* extracted_tables = json.load(f) from the file of the extracted tables
\* (strings, integers, lists and dicts with string keys come back as they
\* were written), then processed_tables = process_document_json(
\* extracted_tables), which writes the contexts into the loaded dicts too
ProcessDocumentJson ==
    /\ pc = "extracted"
    /\ raised' = parse_tables_raises(extracted_tables_output)
    /\ processed_tables' =
          IF raised' = "none"
          THEN process_document_json(extracted_tables_output)
          ELSE <<>>
    /\ extracted_tables' = ArgumentAfterParse(extracted_tables_output)
    /\ pc' = "processed"
    /\ UNCHANGED <<predictions, sections, elem, cont, fn, contained>>
    /\ UNCHANGED <<outputVars, extracted_tables_output, mergeVars>>
    /\ UNCHANGED <<updateVars, pipelineVars>>

\* merged_predictions =
\*     merge_table_results_with_ocr(base_predictions, processed_tables)
MergeTables ==
    /\ pc = "processed"
    /\ raised = "none"
    /\ merged_predictions' =
          merge_table_results_with_ocr(base_predictions, processed_tables)
    /\ pc' = "merged"
    /\ UNCHANGED <<predictions, sections, elem, cont, fn, contained>>
    /\ UNCHANGED <<outputVars, parserVars, base_predictions>>
    /\ UNCHANGED <<updateVars, pipelineVars>>

NextMerge ==
    AddDocumentNode \/ ExtractTables \/ ProcessDocumentJson \/ MergeTables

SpecMerge == InitMerge /\ [][NextMerge]_vars

----------------------------------------------------------------------------
(* Claims about the table round trip (specification SpecMerge) *)

\* the tables have been extracted from the document tree
Extracted == pc \in {"extracted", "processed", "merged"}

\* the paths of the nodes of type table of a tree
TablePaths(tree) ==
    {p \in TreePaths(tree) : SubTree(tree, p).type = "table"}

\* the paths of the tables that are children of a section that is a child
\* of the root
SectionTablePaths(tree) ==
    {p \in TablePaths(tree) :
        Len(p) = 2 /\ SubTree(tree, <<p[1]>>).type = "section"}

\* the children of a node whose type is among types, each reduced to the
\* keys id, type, text, box and confidence
ChildrenOfTypes(node, types) ==
    LET kept == SelectSeq(Get(node, "children", <<>>),
                          LAMBDA c : c.type \in types)
    IN [k \in DOMAIN kept |->
           [key \in {"id", "type", "text", "box", "confidence"} |->
               kept[k][key]]]

\* the entries of the extracted tables keyed by an id
EntriesOf(id) ==
    {k \in DOMAIN extracted_tables_output :
        extracted_tables_output[k].table_id = id}

\* C24 as stated: every node of type table, wherever it is attached, has an
\* entry keyed by its id whose fields are exactly its children of type
\* field and checkbox_context.
C24_EveryTableWithFieldsAndContexts ==
    Extracted =>
        \A p \in TablePaths(base_predictions) :
            LET table == SubTree(base_predictions, p)
            IN \E k \in EntriesOf(table.id) :
                   extracted_tables_output[k].fields =
                       ChildrenOfTypes(table, {"field", "checkbox_context"})

\* C24: extract_tables_from_document_structure returns one entry for every
\* table that is a child of a section that is itself a child of the root,
\* and no other entry: the entry is keyed by the table's id, holds the id of
\* the section as parent_id and, as fields, the table's children of type
\* field and title in their order (checkbox contexts are left out).  A
\* table under the root or deeper in the tree has no entry.
C24_SectionTablesWithFieldsAndTitles ==
    Extracted =>
        /\ \A p \in SectionTablePaths(base_predictions) :
              LET table == SubTree(base_predictions, p)
                  section == SubTree(base_predictions, <<p[1]>>)
              IN \E k \in EntriesOf(table.id) :
                     /\ extracted_tables_output[k].fields =
                           ChildrenOfTypes(table, {"field", "title"})
                     /\ extracted_tables_output[k].parent_id = section.id
                     /\ extracted_tables_output[k].box = table.box
        /\ \A k \in DOMAIN extracted_tables_output :
              /\ \E p \in SectionTablePaths(base_predictions) :
                    SubTree(base_predictions, p).id
                        = extracted_tables_output[k].table_id
              /\ Cardinality(EntriesOf(extracted_tables_output[k].table_id)) = 1

\* Tables have been extracted from a tree where a table of a section holds
\* a title, listed in its entry, and a table under the root has no entry.
C24_Witness ==
    /\ Extracted
    /\ \E k \in DOMAIN extracted_tables_output :
          \E i \in DOMAIN extracted_tables_output[k].fields :
              extracted_tables_output[k].fields[i].type = "title"
    /\ \E p \in TablePaths(base_predictions) :
          Len(p) = 1 /\ EntriesOf(SubTree(base_predictions, p).id) = {}

\* C22: no node of the tree returned by merge_table_results_with_ocr holds
\* an empty children list: a node without children has no children key.
C22_NoEmptyChildrenAfterMerge ==
    pc = "merged" =>
        \A p \in TreePaths(merged_predictions) :
            LET node == SubTree(merged_predictions, p)
            IN "children" \in DOMAIN node => node.children # <<>>

\* the number of nodes of a tree that carry an id
NodesWithDocId(tree, id) ==
    Cardinality({p \in TreePaths(tree) :
                    Get(SubTree(tree, p), "id", "") = id})

\* the ids of the nodes of a tree
DocIds(tree) ==
    {Get(SubTree(tree, p), "id", "") : p \in TreePaths(tree)}

\* the node at path p lies in a table that was processed
InProcessedTable(tree, p) ==
    \E n \in 1..Len(p) :
        LET above == SubTree(tree, SubSeq(p, 1, n))
        IN above.type = "table" /\ InMapping(processed_tables, above.id)

\* C26: extracting the tables of a document tree, processing them and
\* merging them back yields a tree with the node ids of the original, each
\* exactly once (no child of a table lost or duplicated), and with every
\* node outside the processed tables at its place and unchanged.
C26_RoundTripKeepsEveryIdOnce ==
    pc = "merged" =>
        /\ DocIds(merged_predictions) = DocIds(base_predictions)
        /\ \A id \in DocIds(base_predictions) :
              NodesWithDocId(merged_predictions, id)
                  = NodesWithDocId(base_predictions, id)
        /\ \A p \in TreePaths(base_predictions) :
              ~InProcessedTable(base_predictions, p) =>
                  /\ p \in TreePaths(merged_predictions)
                  /\ DeleteKey(SubTree(merged_predictions, p), "children")
                        = DeleteKey(SubTree(base_predictions, p), "children")

----------------------------------------------------------------------------
(* update_document_structure_with_processed_tables                         *)
(*                                            (src/src/table_parser.py)    *)
(*                                                                         *)
(* doc_structure is a dict of sections keyed by their id, modelled as the  *)
(* ordered list of its entries [section_id, section].  The function makes  *)
(* doc_structure.copy(), a new dict holding the same section objects, and  *)
(* writes into the table dicts found in the children of those sections.    *)

\* a child of a section after the loop body: a table found in
\* processed_tables gets the key fields (and metadata)
UpdatedChild(child, tables) ==
    IF /\ Get(child, "type", "") = "table"
       /\ "id" \in DOMAIN child
       /\ InMapping(tables, child.id)
    THEN LET processed_table == Mapped(tables, child.id)
             with_fields ==
                 SetKey(child, "fields", Get(processed_table, "fields", <<>>))
         IN IF "metadata" \in DOMAIN processed_table
            THEN SetKey(with_fields, "metadata", processed_table.metadata)
            ELSE with_fields
    ELSE child

\* a section after the loop over its children
UpdatedSection(section, tables) ==
    IF "children" \in DOMAIN section
    THEN [section EXCEPT !.children =
             [i \in DOMAIN @ |-> UpdatedChild(@[i], tables)]]
    ELSE section

\* The dict update_document_structure_with_processed_tables returns
update_document_structure_with_processed_tables(structure, tables) ==
    [k \in DOMAIN structure |->
        [structure[k] EXCEPT !.section = UpdatedSection(@, tables)]]

\* The caller's doc_structure after the call: its sections and their
\* children are the very objects the returned dict holds (the copy is
\* shallow), so they carry every key the function wrote.
ArgumentAfterUpdate(structure, tables) ==
    update_document_structure_with_processed_tables(structure, tables)

----------------------------------------------------------------------------
(* Specification of the update: a dict of sections with tables and fields  *)
(* is assembled, then updated with a dict of processed tables.             *)

\* Most sections and children of sections of a dict of sections
MaxStructureNodes == 4

\* Children a section may hold: two tables and a field
SectionChildren ==
    { [type |-> "table", id |-> "t1", box |-> BoxAt(200, 60)],
      [type |-> "table", id |-> "t2", box |-> BoxAt(200, 100)],
      [type |-> "field", id |-> "f0", text |-> "Name", box |-> BoxAt(100, 0)] }

\* The extracted table with the header State and an empty field below it,
\* under an id
ExtractedAs(table_id) ==
    [table_id |-> table_id, box |-> BoxAt(200, 60), confidence |-> 1,
     fields |-> << Field("f1", "field", "State", BoxAt(100, 10)),
                   Field("f4", "field", "", BoxAt(110, 30)) >>,
     parent_id |-> "s1"]

\* Dicts of processed tables the update may be handed
ProcessedDicts ==
    { process_tables(<<>>),
      process_tables(<<ExtractedAs("t1")>>),
      process_tables(<<ExtractedAs("t2")>>),
      process_tables(<<ExtractedAs("t1"), ExtractedAs("t2")>>) }

\* number of sections and children of sections
StructureNodes(structure) ==
    Len(structure)
        + Cardinality({<<k, i>> \in (DOMAIN structure) \X (1..MaxStructureNodes) :
                          i \in DOMAIN Get(structure[k].section, "children", <<>>)})

InitUpdate ==
    /\ predictions = <<>>
    /\ pc = "structure"
    /\ sections = <<>>
    /\ elem = NoDetection
    /\ cont = NoDetection
    /\ fn = "none"
    /\ contained = "none"
    /\ hierarchy = NoNode
    /\ transformed = NoNode
    /\ extracted_tables = <<>>
    /\ extracted_tables_output = <<>>
    /\ processed_tables \in ProcessedDicts
    /\ raised = "none"
    /\ base_predictions = NoNode
    /\ merged_predictions = NoNode
    /\ doc_structure = <<>>
    /\ updated_structure = <<>>
    /\ structured_document = NoNode
    /\ final_structured_document = NoNode
    /\ cleaned_document = NoNode
    /\ steps = <<>>
    /\ workflow_predictions = <<>>
    /\ snippets = {}
    /\ predictions_json = [written |-> FALSE, content |-> <<>>]
    /\ main_predictions = [list |-> <<>>]
    /\ ocr_enriched_predictions = <<>>

\* One more section in the dict, without children
AddSection ==
    /\ pc = "structure"
    /\ StructureNodes(doc_structure) < MaxStructureNodes
    /\ LET section_id == "s" \o ToString(Len(doc_structure) + 1)
       IN doc_structure' =
              Append(doc_structure,
                     [section_id |-> section_id,
                      section |-> [type |-> "section", id |-> section_id]])
    /\ UNCHANGED <<predictions, pc, sections, elem, cont, fn, contained>>
    /\ UNCHANGED <<outputVars, parserVars, mergeVars, updated_structure>>
    /\ UNCHANGED pipelineVars

\* One more child in a section, of an id the dict does not hold yet
AddSectionChild ==
    /\ pc = "structure"
    /\ StructureNodes(doc_structure) < MaxStructureNodes
    /\ \E k \in DOMAIN doc_structure, child \in SectionChildren :
          /\ \A j \in DOMAIN doc_structure :
                \A i \in DOMAIN Get(doc_structure[j].section, "children", <<>>) :
                    doc_structure[j].section.children[i].id # child.id
          /\ doc_structure' =
                [doc_structure EXCEPT ![k].section =
                    AppendChild(@, <<>>, child)]
    /\ UNCHANGED <<predictions, pc, sections, elem, cont, fn, contained>>
    /\ UNCHANGED <<outputVars, parserVars, mergeVars, updated_structure>>
    /\ UNCHANGED pipelineVars

\* updated_structure =
\*     update_document_structure_with_processed_tables(doc_structure,
\*                                                     processed_tables)
UpdateDocumentStructure ==
    /\ pc = "structure"
    /\ updated_structure' =
          update_document_structure_with_processed_tables(doc_structure,
                                                          processed_tables)
    /\ doc_structure' = ArgumentAfterUpdate(doc_structure, processed_tables)
    /\ pc' = "updated"
    /\ UNCHANGED <<predictions, sections, elem, cont, fn, contained>>
    /\ UNCHANGED <<outputVars, parserVars, mergeVars, pipelineVars>>

NextUpdate == AddSection \/ AddSectionChild \/ UpdateDocumentStructure

SpecUpdate == InitUpdate /\ [][NextUpdate]_vars

\* C27: update_document_structure_with_processed_tables works on a deep
\* copy: the call leaves the caller's doc_structure, the table nodes nested
\* in its sections included, as it was.
C27_ArgumentUnchanged ==
    [][pc' = "updated" => doc_structure' = doc_structure]_vars


----------------------------------------------------------------------------
(* main()  (src/src/main.py)                                               *)
(*                                                                         *)
(* pc is the step about to run; steps lists the steps that completed.      *)
(* None is the placeholder NoNode and a list is tagged [list |-> l].  The  *)
(* names main.py imports from doc_structure at line 5 are taken as         *)
(* defined.  Every run ends at line 57: extract() returns None on each of  *)
(* its paths, and SnippetOCR.run raises TypeError when it iterates None,   *)
(* outside any try block, so that no step from line 60 on is ever started. *)

\* Longest list of predictions the detection workflow returns
MaxWorkflowPredictions == 2

\* original_image.size of the input image
OriginalImageSize == <<640, 640>>

\* predictions_wrapper.get("image", {}) with the defaults of width and height
ModelInput == [width |-> 640, height |-> 640]

\* Predictions the workflow may return: boxes inside the image, a box that
\* starts half a pixel left of the image, boxes that leave the image on the
\* left and on the right, and a class no snippet is saved for.
WorkflowPredictions ==
    { Det(1, "section", 320, 320, 600, 600),
      Det(2, "table", 200, 60, 300, 40),
      Det(3, "field", 100, 60, 190, 10),
      Det(4, "field", 10, 60, 21, 10),
      Det(5, "field", 10, 60, 30, 10),
      Det(6, "checkbox", 630, 60, 30, 10),
      Det(7, "title", 100, 20, 100, 10) }

\* the lists of at most n such predictions
WorkflowResults ==
    UNION {[1..n -> WorkflowPredictions] : n \in 0..MaxWorkflowPredictions}

\* the classes a snippet is saved for
SnippetClasses ==
    {"field", "checkbox_context", "section", "table", "checkbox",
     "checkbox_option"}

\* int(n / 2): truncation towards zero
IntOfHalf(n) == IF n >= 0 THEN n \div 2 ELSE -((-n) \div 2)

\* _save_snippet: the box (left, top, right, bottom) of a prediction, for
\* an image of the model's input size (scale_x = scale_y = 1.0)
SnippetBox(pred) ==
    [left |-> IntOfHalf(2 * pred.x - pred.width),
     top |-> IntOfHalf(2 * pred.y - pred.height),
     right |-> IntOfHalf(2 * pred.x + pred.width),
     bottom |-> IntOfHalf(2 * pred.y + pred.height)]

\* f"{pred['class']}_{pred['detection_id']}.png"
SnippetName(pred) ==
    pred.class \o "_" \o ToString(pred.detection_id) \o ".png"

\* _save_snippet(image, pred, model_input_size): the name of the file
\* saved, "" for None when the box leaves the image
save_snippet(pred) ==
    LET box == SnippetBox(pred)
    IN IF \/ box.left < 0
          \/ box.top < 0
          \/ box.right > OriginalImageSize[1]
          \/ box.bottom > OriginalImageSize[2]
       THEN ""
       ELSE SnippetName(pred)

\* enriched_predictions after the loop of extract() over predictions
enriched_predictions(preds) ==
    LET saved == SelectSeq(preds,
                     LAMBDA pred : /\ pred.class \in SnippetClasses
                                   /\ save_snippet(pred) # "")
    IN [i \in DOMAIN saved |->
           SetKey(saved[i], "filename", save_snippet(saved[i]))]

\* the value SnippetExtractor.extract() returns: None on each of its paths
extract(preds) == NoNode

\* a file that was not written
NoFile == [written |-> FALSE, content |-> <<>>]

\* Texts the OCR of a snippet may give
OcrTexts == {"", "State"}

InitPipeline ==
    /\ predictions = <<>>
    /\ pc = "snippet extraction"
    /\ sections = <<>>
    /\ elem = NoDetection
    /\ cont = NoDetection
    /\ fn = "none"
    /\ contained = "none"
    /\ hierarchy = NoNode
    /\ transformed = NoNode
    /\ extracted_tables = <<>>
    /\ extracted_tables_output = <<>>
    /\ processed_tables = <<>>
    /\ raised = "none"
    /\ base_predictions = NoNode
    /\ merged_predictions = NoNode
    /\ doc_structure = <<>>
    /\ updated_structure = <<>>
    /\ structured_document = NoNode
    /\ final_structured_document = NoNode
    /\ cleaned_document = NoNode
    /\ steps = <<>>
    /\ workflow_predictions \in WorkflowResults
    /\ snippets = {}
    /\ predictions_json = NoFile
    /\ main_predictions = [list |-> <<>>]
    /\ ocr_enriched_predictions = <<>>

\* predictions = extractor.extract(): the snippet directory is cleared;
\* when the workflow returned predictions, the snippets of the kept ones
\* are saved and the kept predictions are written to predictions.json
SnippetExtraction ==
    /\ pc = "snippet extraction"
    /\ IF workflow_predictions = <<>>
       THEN /\ snippets' = {}
            /\ predictions_json' = predictions_json
       ELSE LET enriched == enriched_predictions(workflow_predictions)
            IN /\ snippets' = {enriched[i].filename : i \in DOMAIN enriched}
               /\ predictions_json' = [written |-> TRUE, content |-> enriched]
    /\ main_predictions' = extract(workflow_predictions)
    /\ steps' = Append(steps, "snippet extraction")
    /\ pc' = "snippet ocr"
    /\ UNCHANGED <<predictions, sections, elem, cont, fn, contained>>
    /\ UNCHANGED <<outputVars, parserVars, mergeVars, updateVars>>
    /\ UNCHANGED <<structured_document, final_structured_document,
                   cleaned_document, workflow_predictions,
                   ocr_enriched_predictions>>

\* filename_to_pred = {pred['filename']: pred for pred in self.predictions
\* if 'filename' in pred}, restricted to the files of the directory: the
\* positions of the predictions the dict holds, the last one of each
\* filename (every filename ends in ".png", as those extract() writes)
filename_to_pred(preds, files) ==
    {i \in DOMAIN preds :
        /\ "filename" \in DOMAIN preds[i]
        /\ preds[i].filename \in files
        /\ \A j \in DOMAIN preds :
              (j > i /\ "filename" \in DOMAIN preds[j]) =>
                  preds[j].filename # preds[i].filename}

\* self.predictions after the loop of run(): pred["text"] = text is written
\* into the prediction the dict holds for each file; texts[i] is the text
\* the OCR reads ("" when it fails) for the file of prediction i
run(preds, files, texts) ==
    [i \in DOMAIN preds |->
        IF i \in filename_to_pred(preds, files)
        THEN SetKey(preds[i], "text", texts[i])
        ELSE preds[i]]

\* ocr_enriched_predictions = SnippetOCR(snippet_dir, predictions).run():
\* iterating None at line 110 of snippet_ocr.py raises TypeError, which
\* ends main(); on a list, run() writes the texts into the predictions of
\* the list it was given and returns that very list, so that predictions
\* and ocr_enriched_predictions are the same list afterwards
SnippetOcr ==
    /\ pc = "snippet ocr"
    /\ IF main_predictions = NoNode
       THEN /\ raised' = "TypeError"
            /\ ocr_enriched_predictions' = ocr_enriched_predictions
            /\ main_predictions' = main_predictions
            /\ steps' = steps
            /\ pc' = "raised"
       ELSE /\ raised' = raised
            /\ \E texts \in [DOMAIN main_predictions.list -> OcrTexts] :
                  ocr_enriched_predictions' =
                      run(main_predictions.list, snippets, texts)
            /\ main_predictions' = [list |-> ocr_enriched_predictions']
            /\ steps' = Append(steps, "snippet ocr")
            /\ pc' = "structuring"
    /\ UNCHANGED <<predictions, sections, elem, cont, fn, contained>>
    /\ UNCHANGED <<outputVars, extracted_tables, extracted_tables_output,
                   processed_tables, mergeVars, updateVars>>
    /\ UNCHANGED <<structured_document, final_structured_document,
                   cleaned_document, workflow_predictions, snippets,
                   predictions_json>>

NextPipeline ==
    \/ SnippetExtraction
    \/ SnippetOcr

\* main() keeps running: a step that can run does run
SpecPipeline ==
    InitPipeline /\ [][NextPipeline]_vars /\ WF_vars(NextPipeline)

----------------------------------------------------------------------------
(* Claim about the pipeline (specification SpecPipeline) *)

\* the step completed
Ran(step) == \E i \in DOMAIN steps : steps[i] = step

\* the step later ran only after the step first had completed
RanBefore(first, later) ==
    \A i \in DOMAIN steps :
        steps[i] = later => \E j \in 1..(i - 1) : steps[j] = first

\* the order of the steps so far is the one claimed
StepsInOrder ==
    /\ RanBefore("structuring", "parsing")
    /\ RanBefore("extraction", "parsing")
    /\ RanBefore("parsing", "merge")
    /\ RanBefore("parsing", "assembly")

\* the pipeline finished and every step after the structuring was skipped
FinishedWithStepsSkipped ==
    /\ pc = "finished"
    /\ \A step \in {"extraction", "parsing", "merge", "assembly",
                    "cleaning"} : ~Ran(step)

====
